---- MODULE Spec2Model ----
(***************************************************************************)
(* Verification model of LFSS (Lightweight File Storage Service):          *)
(*   - the listing merger  listPath  of the frontend API (frontend/api.js, *)
(*     bundled in frontend/scripts.js), specification SpecList;            *)
(*   - the permission evaluator  decide, specification SpecPerm;           *)
(*   - the mutation coordinator over the tables of lfss/sql/init.sql       *)
(*     (user, fmeta, usize), specification Spec.                           *)
(*   - the concurrency barrier of  forEachFile  (frontend/utils.js),       *)
(*     specifications SpecEach and, with fairness, SpecEachFair;           *)
(*   - the file-list page of the web client (page controls and             *)
(*     refreshFileList), specification SpecPage;                           *)
(*   - the store and the login panel of the web client (frontend/state.js, *)
(*     frontend/login.js), specification SpecLogin.                        *)
(* The specifications share one set of variables; each leaves the          *)
(* variables of the others untouched.                                      *)
(***************************************************************************)
EXTENDS Integers, Sequences, FiniteSets, TLC

VARIABLES
    \* ---- listing merger (SpecList)
    dirNames,     \* server: names of the subdirectories of the listed directory
    fileNames,    \* server: names of the files of the listed directory
    lp,           \* the running listPath call: arguments, locals, position
    lpReqs,       \* the requests this listPath call has sent, in order
    pager,        \* a caller that pages through the directory with listPath
    dirHist,      \* the earlier states of the listed directory during the call
    \* ---- permission evaluator (SpecPerm)
    pq,           \* the decision being asked: actor, resource, operation, identity data
    decision,     \* the answer of decide
    prior,        \* the answer the actor's request got before its expiry
    \* ---- mutation coordinator (Spec)
    user,         \* table user:  id -> row or NoRow
    fmeta,        \* table fmeta: url -> row or NoRow
    usize,        \* table usize: id -> accounted size or NoRow
    req,          \* the requests in flight with their positions and responses
    nsub,         \* number of requests submitted so far
    blobs,        \* stored bytes: file_id -> "stored", or "trash" once their
                  \* deletion is due
    \* ---- forEachFile of frontend/utils.js (SpecEach)
    drop,         \* the dropped entries and the maxConcurrent argument
    activeCount,  \* callbacks counted as running
    queue,        \* the tasks that wait for a slot, oldest first
    micro,        \* the pending promise reactions of the event loop, in order
    fresh,        \* callbacks started in the current turn of the event loop
    taskSt,       \* position of the task of each dropped file
    dirSt,        \* position of the traversal of each dropped directory
    \* ---- the file-list page of the web client (SpecPage)
    page,         \* the stored dirpath, page number and page limit, the
                  \* page-count label and what the table shows
    calls,        \* the listPath calls of refreshFileList that are in flight
    \* ---- store and login panel of the web client (SpecLogin)
    ls,           \* localStorage: the persisted token and endpoint
    connConfig,   \* store.conn.config
    login         \* maybeShowLoginPanel: its position, panel and promise

listVars == <<dirNames, fileNames, lp, lpReqs, pager, dirHist>>
permVars == <<pq, decision, prior>>
dbVars   == <<user, fmeta, usize, req, nsub, blobs>>
feVars   == <<drop, activeCount, queue, micro, fresh, taskSt, dirSt>>
guiVars  == <<page, calls, ls, connConfig, login>>
vars     == <<dirNames, fileNames, lp, lpReqs, pager, dirHist, pq, decision, prior,
              user, fmeta, usize, req, nsub, blobs,
              drop, activeCount, queue, micro, fresh, taskSt, dirSt,
              page, calls, ls, connConfig, login>>

Max(a, b) == IF a > b THEN a ELSE b
Min(a, b) == IF a < b THEN a ELSE b

NoRow == "NoRow"

\* ========================================================================
\*                        LISTING MERGER  (listPath)
\* ========================================================================

\* ---- bounds of the listing model
MaxDirs   == 3
MaxFiles  == 10
MaxOffset == 13
MaxLimit  == 5

\* faulty variant: only "/" is taken for the root
RootPathsSlashOnly == {"/"}
RootPaths == {"/", ""}
ListedPaths == {"/", "alice/"}
OrderKeys == {"", "url"}

\* the top-level users the root listing answers with
RootUsers == <<"alice", "bob">>

RECURSIVE SortedAsc(_)
SortedAsc(S) ==
    IF S = {} THEN <<>>
    ELSE LET m == CHOOSE x \in S : \A y \in S : x <= y
         IN  <<m>> \o SortedAsc(S \ {m})

Reverse(s) == [i \in 1..Len(s) |-> s[Len(s) + 1 - i]]

\* the server's ordered collection of a kind of children
Ordered(S, desc) == IF desc THEN Reverse(SortedAsc(S)) ELSE SortedAsc(S)

\* the server's page of an ordered collection: rows offset+1 .. offset+limit
Slice(s, offset, limit) ==
    IF offset >= Len(s) THEN <<>>
    ELSE SubSeq(s, offset + 1, Min(offset + limit, Len(s)))

serverCountDirs  == Cardinality(dirNames)
serverCountFiles == Cardinality(fileNames)
serverListDirs(offset, limit, desc)  == Slice(Ordered(dirNames, desc), offset, limit)
serverListFiles(offset, limit, desc) == Slice(Ordered(fileNames, desc), offset, limit)

\* ---- the locals of listPath
\* faulty variant: the stored value 'none' is passed on as it is
normOrderByKeep(orderBy) == orderBy
normOrderBy(orderBy) == IF orderBy = "none" THEN "" ELSE orderBy
dirOffset(offset) == offset
\* faulty variant: the file offset is not shifted by the directories before it
fileOffsetUnshifted(offset, dirCount) == offset
fileOffset(offset, dirCount) == Max(offset - dirCount, 0)
\* faulty variant: no clamp at zero once the offset is past the directories
dirThispageUnclamped(dirCount, dOffset, limit) == Min(dirCount - dOffset, limit)
dirThispage(dirCount, dOffset, limit) == Max(Min(dirCount - dOffset, limit), 0)
\* faulty variant: the files may take the whole page
fileLimitWhole(limit, dThispage) == limit
fileLimit(limit, dThispage) == limit - dThispage
dirOrderBy(orderBy) == IF orderBy = "url" THEN "dirname" ELSE ""
fileOrderBy(orderBy) == orderBy
wantDirs(offset, dirCount) == offset < dirCount
wantFiles(fLimit, fileCount, fOffset) == fLimit >= 0 /\ fileCount > fOffset

\* a call of listPath: its arguments, its position, the awaited values that
\* have arrived (got) and their values
NewCall(path, offset, limit, orderBy, orderDesc) ==
    [pc |-> "call", path |-> path, offset |-> offset, limit |-> limit,
     orderByArg |-> orderBy, orderBy |-> orderBy, orderDesc |-> orderDesc,
     got |-> {},
     dirCount |-> 0, fileCount |-> 0, dirList |-> <<>>, fileList |-> <<>>,
     retDirs |-> 0, retFiles |-> 0]

InitList ==
    /\ \E dc \in 0..MaxDirs, fc \in 0..MaxFiles :
          /\ dirNames = 1..dc
          /\ fileNames = 1..fc
    /\ \E path \in ListedPaths, off \in 0..MaxOffset, lim \in 0..MaxLimit,
          ob \in OrderKeys, od \in BOOLEAN :
          /\ lp = NewCall(path, off, lim, ob, od)
          /\ pager = [start |-> off, acc |-> <<>>, pages |-> 0]
    /\ lpReqs = <<>>
    /\ dirHist = <<>>

\* listPath, root case: one listing request, counts reported as zero
LpRoot ==
    /\ lp.pc = "call"
    /\ lp.path \in RootPaths
    /\ lp' = [lp EXCEPT !.pc = "done", !.got = {"dirList", "fileList"},
                        !.dirList = RootUsers, !.fileList = <<>>,
                        !.retDirs = 0, !.retFiles = 0]
    /\ lpReqs' = Append(lpReqs, [kind |-> "list-path", path |-> ""])
    /\ UNCHANGED <<dirNames, fileNames, pager, dirHist, permVars, dbVars, feVars, guiVars>>

\* listPath up to the first await: both count requests are sent
LpBegin ==
    /\ lp.pc = "call"
    /\ lp.path \notin RootPaths
    /\ lp' = [lp EXCEPT !.pc = "count", !.orderBy = normOrderBy(lp.orderBy)]
    /\ lpReqs' = lpReqs \o <<[kind |-> "count-dirs"], [kind |-> "count-files"]>>
    /\ UNCHANGED <<dirNames, fileNames, pager, dirHist, permVars, dbVars, feVars, guiVars>>

\* the server answers count-dirs
CountDirs ==
    /\ lp.pc = "count"
    /\ "dirCount" \notin lp.got
    /\ lp' = [lp EXCEPT !.dirCount = serverCountDirs, !.got = @ \cup {"dirCount"}]
    /\ UNCHANGED <<dirNames, fileNames, lpReqs, pager, dirHist, permVars, dbVars, feVars, guiVars>>

\* the server answers count-files
CountFiles ==
    /\ lp.pc = "count"
    /\ "fileCount" \notin lp.got
    /\ lp' = [lp EXCEPT !.fileCount = serverCountFiles, !.got = @ \cup {"fileCount"}]
    /\ UNCHANGED <<dirNames, fileNames, lpReqs, pager, dirHist, permVars, dbVars, feVars, guiVars>>

\* listPath after the counts: the locals are computed and the list requests
\* that pass their guards are sent; a guard that fails yields [] at once
LpFetch ==
    /\ lp.pc = "count"
    /\ {"dirCount", "fileCount"} \subseteq lp.got
    /\ LET dOff   == dirOffset(lp.offset)
           fOff   == fileOffset(lp.offset, lp.dirCount)
           dThis  == dirThispage(lp.dirCount, dOff, lp.limit)
           fLim   == fileLimit(lp.limit, dThis)
           wd     == wantDirs(lp.offset, lp.dirCount)
           wf     == wantFiles(fLim, lp.fileCount, fOff)
           dReq   == [kind |-> "list-dirs", offset |-> dOff, limit |-> dThis,
                      order_by |-> dirOrderBy(lp.orderBy), order_desc |-> lp.orderDesc]
           fReq   == [kind |-> "list-files", offset |-> fOff, limit |-> fLim,
                      order_by |-> fileOrderBy(lp.orderBy), order_desc |-> lp.orderDesc]
       IN  /\ lp' = [lp EXCEPT !.pc = "fetch",
                               !.got = @ \cup (IF wd THEN {} ELSE {"dirList"})
                                         \cup (IF wf THEN {} ELSE {"fileList"})]
           /\ lpReqs' = lpReqs \o (IF wd THEN <<dReq>> ELSE <<>>)
                               \o (IF wf THEN <<fReq>> ELSE <<>>)
    /\ UNCHANGED <<dirNames, fileNames, pager, dirHist, permVars, dbVars, feVars, guiVars>>

PendingReq(kind) ==
    LET I == {i \in 1..Len(lpReqs) : lpReqs[i].kind = kind}
    IN  lpReqs[CHOOSE i \in I : \A j \in I : j <= i]

\* the server answers list-dirs
ListDirs ==
    /\ lp.pc = "fetch"
    /\ "dirList" \notin lp.got
    /\ LET r == PendingReq("list-dirs")
       IN  lp' = [lp EXCEPT !.dirList = serverListDirs(r.offset, r.limit, r.order_desc),
                            !.got = @ \cup {"dirList"}]
    /\ UNCHANGED <<dirNames, fileNames, lpReqs, pager, dirHist, permVars, dbVars, feVars, guiVars>>

\* the server answers list-files
ListFiles ==
    /\ lp.pc = "fetch"
    /\ "fileList" \notin lp.got
    /\ LET r == PendingReq("list-files")
       IN  lp' = [lp EXCEPT !.fileList = serverListFiles(r.offset, r.limit, r.order_desc),
                            !.got = @ \cup {"fileList"}]
    /\ UNCHANGED <<dirNames, fileNames, lpReqs, pager, dirHist, permVars, dbVars, feVars, guiVars>>

\* listPath returns [{dirs, files}, {dirs: dirCount, files: fileCount}]
LpReturn ==
    /\ lp.pc = "fetch"
    /\ {"dirList", "fileList"} \subseteq lp.got
    /\ lp' = [lp EXCEPT !.pc = "done",
                        !.retDirs = lp.dirCount, !.retFiles = lp.fileCount]
    /\ UNCHANGED <<dirNames, fileNames, lpReqs, pager, dirHist, permVars, dbVars, feVars, guiVars>>

Tag(t, s) == [i \in 1..Len(s) |-> <<t, s[i]>>]

\* the page of a returned call as one sequence: its dirs, then its files
PageOf(c) == Tag("d", c.dirList) \o Tag("f", c.fileList)

\* the caller takes the returned page and asks for the next one, at
\* offset + limit, as long as the returned counts say there is more
PagerNext ==
    /\ lp.pc = "done"
    /\ lp.path \notin RootPaths
    /\ lp.limit > 0
    /\ lp.offset + lp.limit < lp.retDirs + lp.retFiles
    /\ pager' = [pager EXCEPT !.acc = pager.acc \o PageOf(lp), !.pages = pager.pages + 1]
    /\ lp' = NewCall(lp.path, lp.offset + lp.limit, lp.limit, lp.orderBy, lp.orderDesc)
    /\ lpReqs' = <<>>
    /\ UNCHANGED <<dirNames, fileNames, dirHist, permVars, dbVars, feVars, guiVars>>

NextList ==
    \/ LpRoot
    \/ LpBegin
    \/ CountDirs
    \/ CountFiles
    \/ LpFetch
    \/ ListDirs
    \/ ListFiles
    \/ LpReturn
    \/ PagerNext

\* ---- other clients change the listed directory while listPath is running
\* ---- bounds of the listing model with concurrent changes
MutDirs      == 2
MutFiles     == 3
MutOffset    == 4
MutLimit     == 3
MaxMutations == 1

DirNameSpace  == 0..(MutDirs + 1)
FileNameSpace == 0..(MutFiles + 1)

InFlight == lp.pc \in {"count", "fetch"}

\* both counts have been answered and no list request has been answered yet
BetweenRounds ==
    /\ {"dirCount", "fileCount"} \subseteq lp.got
    /\ \/ lp.pc = "count"
       \/ lp.pc = "fetch" /\ lp.dirList = <<>> /\ lp.fileList = <<>>

\* the directory changes under the running call; its earlier state is kept
Mutation(dirs2, files2) ==
    /\ InFlight
    /\ Len(dirHist) < MaxMutations
    /\ dirNames' = dirs2
    /\ fileNames' = files2
    /\ dirHist' = Append(dirHist, [dirs |-> dirNames, files |-> fileNames,
                                   between |-> BetweenRounds])
    /\ UNCHANGED <<lp, lpReqs, pager, permVars, dbVars, feVars, guiVars>>

\* put of the first file below a new subdirectory
CreateDir ==
    \E d \in DirNameSpace \ dirNames :
        /\ Mutation(dirNames \cup {d}, fileNames)
        /\ d \in dirNames'

\* delete of a subdirectory
DeleteDir ==
    \E d \in dirNames :
        /\ Mutation(dirNames \ {d}, fileNames)
        /\ d \notin dirNames'

\* put of a new file directly in the directory
CreateFile ==
    \E f \in FileNameSpace \ fileNames :
        /\ Mutation(dirNames, fileNames \cup {f})
        /\ f \in fileNames'

\* delete of a file of the directory
DeleteFile ==
    \E f \in fileNames :
        /\ Mutation(dirNames, fileNames \ {f})
        /\ f \notin fileNames'

InitListMut ==
    /\ \E dc \in 0..MutDirs, fc \in 0..MutFiles :
          /\ dirNames = 1..dc
          /\ fileNames = 1..fc
    /\ \E path \in ListedPaths, off \in 0..MutOffset, lim \in 0..MutLimit :
          /\ lp = NewCall(path, off, lim, "", FALSE)
          /\ pager = [start |-> off, acc |-> <<>>, pages |-> 0]
    /\ lpReqs = <<>>
    /\ dirHist = <<>>

NextListMut ==
    \/ LpRoot
    \/ LpBegin
    \/ CountDirs
    \/ CountFiles
    \/ LpFetch
    \/ ListDirs
    \/ ListFiles
    \/ LpReturn
    \/ CreateDir
    \/ DeleteDir
    \/ CreateFile
    \/ DeleteFile

\* ---- listPath called with every sort key and with both root paths
\* the keys a caller passes: the stored 'none' and the FileSortKey values
SortKeys == {"none", "", "url", "file_size", "create_time", "access_time", "mime_type"}

InitListKeys ==
    /\ \E dc \in 0..MutDirs, fc \in 0..MutFiles :
          /\ dirNames = 1..dc
          /\ fileNames = 1..fc
    /\ \E path \in {"/", "", "alice/"}, off \in 0..MutOffset, lim \in 0..MutLimit,
          ob \in SortKeys, od \in BOOLEAN :
          /\ lp = NewCall(path, off, lim, ob, od)
          /\ pager = [start |-> off, acc |-> <<>>, pages |-> 0]
    /\ lpReqs = <<>>
    /\ dirHist = <<>>

\* ========================================================================
\*                     PERMISSION EVALUATOR  (decide)
\* ========================================================================

\* faulty variant: codes 2 and 3 swapped
permMapSwapped == [c \in 0..3 |-> CASE c = 0 -> "unset" [] c = 1 -> "public"
                                    [] c = 2 -> "private" [] c = 3 -> "protected"]

\* numeric permission codes of user.permission and fmeta.permission
permMap == [c \in 0..3 |-> CASE c = 0 -> "unset" [] c = 1 -> "public"
                             [] c = 2 -> "protected" [] c = 3 -> "private"]

Allow == "Allow"
Deny  == "Deny"
Absent == "absent"

FileOps == {"GET", "PUT", "POST", "DELETE-file", "MOVE", "COPY"}
DirOps  == {"LIST", "DELETE-dir"}
Operations == FileOps \cup DirOps
\* reading and writing the config document of a directory (.lfssdir.json)
ConfigOps == {"CONFIG-read", "CONFIG-write"}

\* access levels of a PeerRelation and of an access-control entry
PeerLevels == {"read", "write"}
ConfigLevels == {"read", "write", "none"}

\* faulty variant: read level also writes
LevelGrantsReadPuts(level) ==
    CASE level = "write" -> {"GET", "PUT", "POST", "DELETE-file", "DELETE-dir",
                             "MOVE", "COPY", "LIST"}
      [] level = "read"  -> {"GET", "LIST", "PUT", "POST"}
      [] OTHER           -> {}

\* what each access level grants
LevelGrants(level) ==
    CASE level = "write" -> {"GET", "PUT", "POST", "DELETE-file", "DELETE-dir",
                             "MOVE", "COPY", "LIST"}
      [] level = "read"  -> {"GET", "LIST"}
      [] OTHER           -> {}

\* a path is the sequence of its segments; the first one is the owner's name
pathOwner(path) == path[1]
parentDir(path) == SubSeq(path, 1, Len(path) - 1)

\* configFor(directoryPath): the access-control map of that directory only
NoConfig == << >>
configFor(dirconf, dir) ==
    IF dir \in DOMAIN dirconf THEN dirconf[dir] ELSE NoConfig

\* faulty variant: the expire_time of a virtual user is not looked at
LiveForever(actor) == actor.kind \in {"user", "admin", "expired"}

\* an actor that resolves to a live identity: neither anonymous nor expired
Live(actor) == actor.kind \in {"user", "admin"}

\* faulty variant: the config of the directory above applies as well
configLevelRecursive(q) ==
    LET cfg == configFor(q.dirconf, parentDir(q.path))
        up  == configFor(q.dirconf, parentDir(parentDir(q.path)))
    IN  IF ~q.isdir /\ Live(q.actor) /\ q.actor.name \in DOMAIN cfg
        THEN cfg[q.actor.name]
        ELSE IF ~q.isdir /\ Live(q.actor) /\ q.actor.name \in DOMAIN up
        THEN up[q.actor.name] ELSE Absent

\* step 3: the level the parent directory's config gives the actor, for
\* files directly inside that directory
configLevel(q) ==
    LET cfg == configFor(q.dirconf, parentDir(q.path))
    IN  IF ~q.isdir /\ Live(q.actor) /\ q.actor.name \in DOMAIN cfg
        THEN cfg[q.actor.name] ELSE Absent

\* faulty variant: an entry of the directory config can lower the level of a
\* write-level peer, it cannot give a level the PeerRelation does not give
accessLevelRestrictOnly(q) ==
    IF ~Live(q.actor) THEN Absent
    ELSE IF configLevel(q) # Absent /\ q.peerRel = "write" THEN configLevel(q)
    ELSE q.peerRel

\* step 5: the level of the actor towards the path-owner; an entry of the
\* directory config replaces the PeerRelation; an expired or unknown actor
\* has no relation at all
accessLevel(q) ==
    IF ~Live(q.actor) THEN Absent
    ELSE IF configLevel(q) # Absent THEN configLevel(q)
    ELSE q.peerRel

isOwner(q) ==
    /\ Live(q.actor)
    /\ \/ q.actor.name = pathOwner(q.path)
       \/ ~q.isdir /\ q.fileOwner = q.actor.name

\* step 6: file.permission if not unset, else path_owner.permission, else public
effectivePermission(filePerm, ownerPerm) ==
    IF permMap[filePerm] # "unset" THEN permMap[filePerm]
    ELSE IF permMap[ownerPerm] # "unset" THEN permMap[ownerPerm]
    ELSE "public"

\* faulty variant: the permission of the file opens every operation, not only GET
fallbackAnyOp(q) ==
    LET eff == effectivePermission(q.filePerm, q.ownerPerm)
    IN  IF eff = "public" THEN Allow
        ELSE IF eff = "protected" /\ q.actor.kind = "user" THEN Allow
        ELSE Deny

fallback(q) ==
    IF q.op # "GET" THEN Deny
    ELSE LET eff == effectivePermission(q.filePerm, q.ownerPerm)
         IN  IF eff = "public" THEN Allow
             ELSE IF eff = "protected" /\ q.actor.kind = "user" THEN Allow
             ELSE Deny

\* faulty variant: the config document is written like any file of the directory
decideConfigAsFile(q) ==
    IF q.actor.kind = "admin" \/ isOwner(q) \/ accessLevel(q) = "write"
    THEN Allow ELSE Deny

\* reading or writing a directory's config document takes the identity of an
\* admin or of the owner (path-owner or file-owner)
decideConfig(q) ==
    IF q.actor.kind = "admin" \/ isOwner(q) THEN Allow ELSE Deny

\* decide(actor, resource, operation): strict precedence, first match wins
decide(q) ==
    IF q.op \in ConfigOps THEN decideConfig(q)
    ELSE IF q.actor.kind = "admin" THEN Allow                     \* 1
    ELSE IF ~Live(q.actor) THEN                                   \* 2
        IF q.op # "GET" THEN Deny ELSE fallback(q)
    ELSE IF configLevel(q) = "none" THEN Deny                     \* 3
    ELSE IF isOwner(q) THEN Allow                                 \* 4
    ELSE IF accessLevel(q) \in PeerLevels THEN                    \* 5
        IF q.op \in LevelGrants(accessLevel(q)) THEN Allow ELSE Deny
    ELSE fallback(q)                                              \* 6

\* ---- the queries of the permission model: everything under /alice/
Alice == "alice"
Bob   == "bob"
Carol == "carol"
DirD  == <<Alice, "D">>
DirS  == <<Alice, "D", "S">>
FileInD == <<Alice, "D", "f">>
FileInS == <<Alice, "D", "S", "g">>
ConfInD == <<Alice, "D", ".lfssdir.json">>
\* a virtual user, named with the prefix .v-, and a file url under its name
VUser == ".v-tmp-1"
FileInV == <<VUser, "f">>
isVirtual(name) == name = VUser

Actors ==
    {[kind |-> "anon", name |-> ""], [kind |-> "user", name |-> VUser]}
      \cup [kind : {"user", "admin", "expired"}, name : {Alice, Bob}]

Resources ==
    {[path |-> FileInD, isdir |-> FALSE], [path |-> FileInS, isdir |-> FALSE],
     [path |-> DirD, isdir |-> TRUE], [path |-> DirS, isdir |-> TRUE]}

\* the config of a directory that names the actor with level e, if any
ConfigNaming(name, dir, e) ==
    IF e = Absent THEN << >> ELSE (dir :> (name :> e))

Queries ==
    {q \in [actor : Actors, path : {FileInD, FileInS, ConfInD, FileInV, DirD, DirS},
            isdir : BOOLEAN,
            op : Operations \cup ConfigOps, fileOwner : {NoRow, Alice, Bob, Carol},
            filePerm : 0..3, ownerPerm : 0..3,
            peerRel : PeerLevels \cup {Absent},
            dirconf : {ConfigNaming(n, DirD, e1) @@ ConfigNaming(n, DirS, e2) :
                          n \in {Alice, Bob}, e1 \in ConfigLevels \cup {Absent},
                          e2 \in ConfigLevels \cup {Absent}}] :
        /\ q.isdir = (q.path \in {DirD, DirS})
        /\ q.op \in (IF q.isdir THEN DirOps
                     ELSE IF q.path = ConfInD THEN ConfigOps ELSE FileOps)
        /\ q.isdir => q.fileOwner = NoRow /\ q.filePerm = 0
        /\ q.fileOwner = NoRow => q.filePerm = 0
        /\ \A d \in DOMAIN q.dirconf : DOMAIN q.dirconf[d] = {q.actor.name}
        /\ q.actor.name = pathOwner(q.path) => q.peerRel = Absent
        /\ q.actor.kind = "anon" => q.peerRel = Absent /\ q.dirconf = << >>
        /\ isVirtual(q.actor.name) => q.path = FileInV
        /\ q.path = FileInV => q.peerRel = Absent /\ q.dirconf = << >>}

Undecided == "undecided"

NoPrior == "none"

InitPerm ==
    /\ pq \in Queries
    /\ decision = Undecided
    /\ prior = NoPrior

\* the evaluator answers the query
Decide ==
    /\ decision = Undecided
    /\ decision' = decide(pq)
    /\ UNCHANGED <<pq, prior, listVars, dbVars, feVars, guiVars>>

\* the expire_time of a virtual user passes while its answered request is
\* still in progress; the user, who has no path of its own, asks again
Expire ==
    /\ decision # Undecided
    /\ prior = NoPrior
    /\ pq.actor.kind = "user"
    /\ pq.actor.name # pathOwner(pq.path)
    /\ pq' = [pq EXCEPT !.actor.kind = "expired"]
    /\ prior' = decision
    /\ decision' = Undecided
    /\ UNCHANGED <<listVars, dbVars, feVars, guiVars>>

\* a GET whose refusal would confirm that a file exists: the url has no
\* record, or the record's effective permission is private
existenceSensitive(q) ==
    /\ q.op = "GET"
    /\ \/ q.fileOwner = NoRow
       \/ effectivePermission(q.filePerm, q.ownerPerm) = "private"

\* faulty variant: the refusal of a private file is reported as a permission error
errorOfRevealing(q) ==
    IF q.actor.kind = "expired" THEN "AuthenticationFailure" ELSE "PermissionDenied"

\* the error a refused request is answered with: an expired or unresolvable
\* credential is an authentication failure; where existence is sensitive the
\* error is the one of a missing resource; anything else is a permission error
errorOf(q) ==
    IF q.actor.kind = "expired" THEN "AuthenticationFailure"
    ELSE IF existenceSensitive(q) THEN "NotFound"
    ELSE "PermissionDenied"

\* an allowed GET of a url without record finds nothing to serve
response(q, d) ==
    IF d # Allow THEN errorOf(q)
    ELSE IF q.op = "GET" /\ q.fileOwner = NoRow THEN "NotFound"
    ELSE Allow

NextPerm ==
    \/ Decide
    \/ Expire

\* ========================================================================
\*              MUTATION COORDINATOR  (tables user, fmeta, usize)
\* ========================================================================

\* ---- bounds of the mutation model
MaxReqs == 2
MaxSize == 2

Root == "root"
DbUsers == {Root, Alice, Bob}
Urls == {<<Alice, "f">>, <<Alice, "g">>, <<Bob, "f">>}
ConflictPolicies == {"abort", "overwrite", "skip"}
Reqs == 1..MaxReqs

\* user.max_storage of the users of the model
maxStorageOf == [u \in DbUsers |-> IF u = Root THEN 3 ELSE 2]

\* the PeerRelation rows of the model: bob is a write-level peer of alice,
\* alice a read-level peer of bob
peerTable == {[owner |-> Alice, peer |-> Bob, level |-> "write"],
              [owner |-> Bob, peer |-> Alice, level |-> "read"]}

peerLevelOf(owner, name) ==
    IF \E p \in peerTable : p.owner = owner /\ p.peer = name
    THEN (CHOOSE p \in peerTable : p.owner = owner /\ p.peer = name).level
    ELSE Absent

\* faulty variant: no uniqueness constraint on url
HasUrlNoKey(t, url) == FALSE

\* ---- table fmeta: a set of rows; url is its PRIMARY KEY
HasUrl(t, url) == \E row \in t : row.url = url
RowOf(t, url) == CHOOSE row \in t : row.url = url
RowsAt(t, url) == {row \in t : row.url = url}
FmetaRow(url, owner, fid, size, perm) ==
    [url |-> url, owner_id |-> owner, file_id |-> fid, file_size |-> size,
     permission |-> perm]

\* ---- table usize: user_id -> size, DEFAULT 0
UserSize(us, u) == IF u \in DOMAIN us THEN us[u] ELSE 0
Charge(us, u, delta) ==
    [v \in DOMAIN us \cup {u} |-> IF v = u THEN UserSize(us, u) + delta ELSE us[v]]
DropRow(f, u) == [v \in DOMAIN f \ {u} |-> f[v]]

RECURSIVE SumSizes(_)
SumSizes(rows) ==
    IF rows = {} THEN 0
    ELSE LET row == CHOOSE x \in rows : TRUE
         IN  row.file_size + SumSizes(rows \ {row})

OwnedBy(t, u) == {row \in t : row.owner_id = u}
UnderPathOf(t, u) == {row \in t : pathOwner(row.url) = u}

\* ---- the database as one value, and the outcome of a transaction
Db == [user |-> user, fmeta |-> fmeta, usize |-> usize]
Outcome(db, status) ==
    [user |-> db.user, fmeta |-> db.fmeta, usize |-> db.usize, status |-> status]

\* faulty variant: the total read when the request was admitted, plus the new bytes
quotaTotalStale(us2, r, size) == r.seen + size

\* the total the quota check of a write compares with max_storage: the
\* charged user's accounted size after the write
quotaTotal(us2, r, size) == UserSize(us2, r.charged)

\* commit db2 if every user in `charged` stays within quota, else roll back
CommitIfWithinQuota(db, db2, charged, failStatus) ==
    IF \A u \in charged : UserSize(db2.usize, u) <= db2.user[u].max_storage
    THEN Outcome(db2, "200")
    ELSE Outcome(db, failStatus)

\* faulty variant: every policy but abort writes over the existing record
replacesExistingUnlessAbort(conflict) == conflict # "abort"

\* the conflict policy under which a PUT of an existing url replaces it:
\* 'abort' cancels with 409, 'skip' ignores the upload, 'overwrite' replaces
replacesExisting(conflict) == conflict = "overwrite"

\* create/overwrite: PUT url by r.actor with a body of `size` bytes
CreateTxn(db, r, rid, size, conflict) ==
    LET new == FmetaRow(r.url, r.actor, rid, size, 0)
    IN  IF r.actor \notin DOMAIN db.user THEN Outcome(db, "401")
        ELSE IF pathOwner(r.url) \notin DOMAIN db.user THEN Outcome(db, "404")
        ELSE IF HasUrl(db.fmeta, r.url) THEN
            IF ~replacesExisting(conflict)
            THEN Outcome(db, IF conflict = "abort" THEN "409" ELSE "200")
            ELSE LET old == RowOf(db.fmeta, r.url)
                     us2 == Charge(Charge(db.usize, old.owner_id, 0 - old.file_size),
                                   r.actor, size)
                     db2 == [db EXCEPT !.fmeta = (db.fmeta \ RowsAt(db.fmeta, r.url))
                                                    \cup {new},
                                       !.usize = us2]
                 IN  IF quotaTotal(us2, [charged |-> r.actor, seen |-> r.seen], size)
                           <= db.user[r.actor].max_storage
                     THEN Outcome(db2, "200") ELSE Outcome(db, "413")
        ELSE LET us2 == Charge(db.usize, r.actor, size)
                 db2 == [db EXCEPT !.fmeta = db.fmeta \cup {new}, !.usize = us2]
             IN  IF quotaTotal(us2, [charged |-> r.actor, seen |-> r.seen], size)
                       <= db.user[r.actor].max_storage
                 THEN Outcome(db2, "200") ELSE Outcome(db, "413")

\* delete: the row goes and its owner's accounted size shrinks with it
DeleteTxn(db, r) ==
    IF r.actor \notin DOMAIN db.user THEN Outcome(db, "401")
    ELSE IF ~HasUrl(db.fmeta, r.url) THEN Outcome(db, "404")
    ELSE LET old == RowOf(db.fmeta, r.url)
         IN  Outcome([db EXCEPT !.fmeta = db.fmeta \ {old},
                                !.usize = Charge(db.usize, old.owner_id,
                                                 0 - old.file_size)], "200")

\* faulty variant: a move is a rename, the file keeps its owner
movedOwnerKept(old, dst) == old.owner_id

\* move transfers the ownership of the file to the destination path-owner
movedOwner(old, dst) == pathOwner(dst)

\* faulty variant: the receiver's quota is found exceeded after the row was
\* rewritten, and only the accounted sizes are restored
MoveTxnHalfRollback(db, r) ==
    IF r.actor \notin DOMAIN db.user THEN Outcome(db, "401")
    ELSE IF ~HasUrl(db.fmeta, r.url) \/ pathOwner(r.dst) \notin DOMAIN db.user
        THEN Outcome(db, "404")
    ELSE IF HasUrl(db.fmeta, r.dst) THEN Outcome(db, "409")
    ELSE LET old == RowOf(db.fmeta, r.url)
             to  == movedOwner(old, r.dst)
             new == [old EXCEPT !.url = r.dst, !.owner_id = to]
             us2 == Charge(Charge(db.usize, old.owner_id, 0 - old.file_size),
                           to, old.file_size)
             db2 == [db EXCEPT !.fmeta = (db.fmeta \ {old}) \cup {new},
                               !.usize = us2]
         IN  IF UserSize(us2, to) <= db.user[to].max_storage
             THEN Outcome(db2, "200")
             ELSE Outcome([db2 EXCEPT !.usize = db.usize], "409")

\* move: new url, owner_id becomes the destination path-owner, both owners'
\* accounted sizes follow; over quota rolls everything back
MoveTxn(db, r) ==
    IF r.actor \notin DOMAIN db.user THEN Outcome(db, "401")
    ELSE IF ~HasUrl(db.fmeta, r.url) \/ pathOwner(r.dst) \notin DOMAIN db.user
        THEN Outcome(db, "404")
    ELSE IF HasUrl(db.fmeta, r.dst) THEN Outcome(db, "409")
    ELSE LET old == RowOf(db.fmeta, r.url)
             to  == movedOwner(old, r.dst)
             new == [old EXCEPT !.url = r.dst, !.owner_id = to]
             us2 == Charge(Charge(db.usize, old.owner_id, 0 - old.file_size),
                           to, old.file_size)
             db2 == [db EXCEPT !.fmeta = (db.fmeta \ {old}) \cup {new},
                               !.usize = us2]
         IN  CommitIfWithinQuota(db, db2, {to}, "409")

\* faulty variant: the copy stays with the owner of the source
copiedOwnerOfSource(src, actor) == src.owner_id

\* copy creates a new file owned by the user who performed the copy
copiedOwner(src, actor) == actor

\* copy: a new row at dst owned by the actor, sharing the bytes of the source
CopyTxn(db, r) ==
    IF r.actor \notin DOMAIN db.user THEN Outcome(db, "401")
    ELSE IF ~HasUrl(db.fmeta, r.url) \/ pathOwner(r.dst) \notin DOMAIN db.user
        THEN Outcome(db, "404")
    ELSE IF HasUrl(db.fmeta, r.dst) THEN Outcome(db, "409")
    ELSE LET src == RowOf(db.fmeta, r.url)
             new == [src EXCEPT !.url = r.dst, !.owner_id = copiedOwner(src, r.actor)]
             db2 == [db EXCEPT !.fmeta = db.fmeta \cup {new},
                               !.usize = Charge(db.usize, r.actor, src.file_size)]
         IN  CommitIfWithinQuota(db, db2, {r.actor}, "409")

\* the accounted sizes after the rows `gone` are removed and the rows `moved`
\* change owner to the owner of their path
RECURSIVE Uncharge(_, _)
Uncharge(us, rows) ==
    IF rows = {} THEN us
    ELSE LET row == CHOOSE x \in rows : TRUE
         IN  Uncharge(Charge(us, row.owner_id, 0 - row.file_size), rows \ {row})

RECURSIVE ChargePathOwners(_, _)
ChargePathOwners(us, rows) ==
    IF rows = {} THEN us
    ELSE LET row == CHOOSE x \in rows : TRUE
         IN  ChargePathOwners(Charge(us, pathOwner(row.url), row.file_size),
                              rows \ {row})

\* faulty variant: the storage statistics of the deleted user and of the other
\* owners are left as they were
UserDelTxnKeepsStats(db, r) ==
    IF r.actor \notin DOMAIN db.user THEN Outcome(db, "401")
    ELSE IF r.target \notin DOMAIN db.user THEN Outcome(db, "404")
    ELSE LET gone  == UnderPathOf(db.fmeta, r.target)
             moved == OwnedBy(db.fmeta, r.target) \ gone
             kept  == {[row EXCEPT !.owner_id = pathOwner(row.url)] : row \in moved}
             db2   == [user  |-> DropRow(db.user, r.target),
                       fmeta |-> (db.fmeta \ (gone \cup moved)) \cup kept,
                       usize |-> db.usize]
         IN  CommitIfWithinQuota(db, db2, {pathOwner(row.url) : row \in moved}, "409")

\* faulty variant: the files the user owns under other paths are removed with
\* the user instead of passing to the owner of their path
UserDelTxnDropsOwned(db, r) ==
    IF r.actor \notin DOMAIN db.user THEN Outcome(db, "401")
    ELSE IF r.target \notin DOMAIN db.user THEN Outcome(db, "404")
    ELSE LET gone == UnderPathOf(db.fmeta, r.target) \cup OwnedBy(db.fmeta, r.target)
             db2  == [user  |-> DropRow(db.user, r.target),
                      fmeta |-> db.fmeta \ gone,
                      usize |-> DropRow(Uncharge(db.usize, gone), r.target)]
         IN  Outcome(db2, "200")

\* faulty variant: the files the user owns under other paths stay as they
\* are, owned by the user that is gone
UserDelTxnLeavesOwned(db, r) ==
    IF r.actor \notin DOMAIN db.user THEN Outcome(db, "401")
    ELSE IF r.target \notin DOMAIN db.user THEN Outcome(db, "404")
    ELSE LET gone == UnderPathOf(db.fmeta, r.target)
             db2  == [user  |-> DropRow(db.user, r.target),
                      fmeta |-> db.fmeta \ gone,
                      usize |-> DropRow(Uncharge(db.usize, gone), r.target)]
         IN  Outcome(db2, "200")

\* faulty variant: ownership is transferred without looking at the receiver's
\* storage space
UserDelTxnNoQuota(db, r) ==
    IF r.actor \notin DOMAIN db.user THEN Outcome(db, "401")
    ELSE IF r.target \notin DOMAIN db.user THEN Outcome(db, "404")
    ELSE LET gone  == UnderPathOf(db.fmeta, r.target)
             moved == OwnedBy(db.fmeta, r.target) \ gone
             kept  == {[row EXCEPT !.owner_id = pathOwner(row.url)] : row \in moved}
             us2   == ChargePathOwners(Uncharge(db.usize, gone \cup moved), moved)
             db2   == [user  |-> DropRow(db.user, r.target),
                       fmeta |-> (db.fmeta \ (gone \cup moved)) \cup kept,
                       usize |-> DropRow(us2, r.target)]
         IN  Outcome(db2, "200")

\* user deletion: (a) the user row goes, (b) every row under the user's path
\* goes, (c) rows the user owns under other paths pass to the path's owner;
\* a receiver over quota aborts it all
UserDelTxn(db, r) ==
    IF r.actor \notin DOMAIN db.user THEN Outcome(db, "401")
    ELSE IF r.target \notin DOMAIN db.user THEN Outcome(db, "404")
    ELSE LET gone  == UnderPathOf(db.fmeta, r.target)
             moved == OwnedBy(db.fmeta, r.target) \ gone
             kept  == {[row EXCEPT !.owner_id = pathOwner(row.url)] : row \in moved}
             us2   == ChargePathOwners(Uncharge(db.usize, gone \cup moved), moved)
             db2   == [user  |-> DropRow(db.user, r.target),
                       fmeta |-> (db.fmeta \ (gone \cup moved)) \cup kept,
                       usize |-> DropRow(us2, r.target)]
         IN  CommitIfWithinQuota(db, db2, {pathOwner(row.url) : row \in moved}, "409")

\* Connector.put resolves with the url on status 200 or 201 and throws on
\* every other status
putSucceeds(status) == ~(status # "200" /\ status # "201")

\* ---- a request: what it asks, where it stands, what it saw when admitted
IdleReq == [pc |-> "idle"]

actorOf(name) ==
    IF name \in DOMAIN user
    THEN [kind |-> IF user[name].is_admin THEN "admin" ELSE "user", name |-> name]
    ELSE [kind |-> "anon", name |-> ""]

\* the decision query of an operation of `name` on the file at url
queryFor(name, url, op) ==
    [actor |-> actorOf(name), path |-> url, isdir |-> FALSE, op |-> op,
     fileOwner |-> IF HasUrl(fmeta, url) THEN RowOf(fmeta, url).owner_id ELSE NoRow,
     filePerm  |-> IF HasUrl(fmeta, url) THEN RowOf(fmeta, url).permission ELSE 0,
     ownerPerm |-> IF pathOwner(url) \in DOMAIN user
                   THEN user[pathOwner(url)].permission ELSE 0,
     peerRel |-> peerLevelOf(pathOwner(url), name),
     dirconf |-> << >>]

\* one logical transaction per inbound request: only a create is suspended,
\* between its admission and its transaction, while its body is received;
\* every other request runs its decision and its transaction with nothing
\* scheduled in between
NoTxnOpen == \A x \in Reqs : req[x].pc = "admitted" => req[x].op = "create"

Free(r) == req[r].pc = "idle" /\ r = nsub + 1 /\ NoTxnOpen

Admit(r, ask, allowed) ==
    /\ nsub' = nsub + 1
    /\ req' = [req EXCEPT ![r] =
                  IF allowed
                  THEN ask @@ [pc |-> "admitted", status |-> "",
                               seen |-> UserSize(usize, ask.actor),
                               sawUrl |-> HasUrl(fmeta, ask.url)]
                  ELSE ask @@ [pc |-> "done", status |-> "403",
                               seen |-> UserSize(usize, ask.actor),
                               sawUrl |-> HasUrl(fmeta, ask.url)]]
    /\ UNCHANGED <<user, fmeta, usize, blobs, listVars, permVars, feVars, guiVars>>

NoUrl == << >>

SubmitCreate ==
    \E r \in Reqs, a \in {Alice, Bob}, url \in Urls :
        /\ Free(r)
        /\ Admit(r, [op |-> "create", actor |-> a, url |-> url, dst |-> NoUrl,
                  target |-> "", size |-> 0, conflict |-> ""],
              decide(queryFor(a, url, "PUT")) = Allow)

\* an admin creates a file in the namespace of another user
SubmitAdminCreate ==
    \E r \in Reqs, url \in Urls :
        /\ Free(r)
        /\ Admit(r, [op |-> "create", actor |-> Root, url |-> url, dst |-> NoUrl,
                  target |-> "", size |-> 0, conflict |-> ""],
              decide(queryFor(Root, url, "PUT")) = Allow)

SubmitDelete ==
    \E r \in Reqs, a \in {Alice, Bob}, url \in Urls :
        /\ Free(r)
        /\ Admit(r, [op |-> "delete", actor |-> a, url |-> url, dst |-> NoUrl,
                  target |-> "", size |-> 0, conflict |-> ""],
              decide(queryFor(a, url, "DELETE-file")) = Allow)

\* faulty variant: only the destination is checked, as for copy
movePermittedDstOnly(a, url, dst) == decide(queryFor(a, dst, "MOVE")) = Allow

\* MOVE needs write permission on the source and on the destination: two
\* independent decisions
movePermitted(a, url, dst) ==
    /\ decide(queryFor(a, url, "MOVE")) = Allow
    /\ decide(queryFor(a, dst, "MOVE")) = Allow

SubmitMove ==
    \E r \in Reqs, a \in {Alice, Bob}, url \in Urls : \E dst \in Urls \ {url} :
        /\ Free(r)
        /\ Admit(r, [op |-> "move", actor |-> a, url |-> url, dst |-> dst,
                  target |-> "", size |-> 0, conflict |-> ""],
              movePermitted(a, url, dst))

\* faulty variant: copy is checked like move, on the source as well
copyPermittedAsMove(a, url, dst) ==
    /\ decide(queryFor(a, url, "COPY")) = Allow
    /\ decide(queryFor(a, dst, "COPY")) = Allow

\* COPY needs write permission on the destination only
copyPermitted(a, url, dst) == decide(queryFor(a, dst, "COPY")) = Allow

SubmitCopy ==
    \E r \in Reqs, a \in {Alice, Bob}, url \in Urls : \E dst \in Urls \ {url} :
        /\ Free(r)
        /\ Admit(r, [op |-> "copy", actor |-> a, url |-> url, dst |-> dst,
                  target |-> "", size |-> 0, conflict |-> ""],
              copyPermitted(a, url, dst))

\* deleting a user is an admin action
SubmitUserDel ==
    \E r \in Reqs, a \in {Root, Alice}, t \in {Alice, Bob} :
        /\ Free(r)
        /\ Admit(r, [op |-> "userdel", actor |-> a, url |-> NoUrl, dst |-> NoUrl,
                  target |-> t, size |-> 0, conflict |-> ""],
              actorOf(a).kind = "admin")

\* faulty variant: the bytes of a removed row are always due for deletion
UnreferencedAlways(t, fid) == TRUE

\* no row of fmeta points to the bytes fid: rows that share a file_id are
\* hard links to the same bytes
Unreferenced(t, fid) == ~\E row \in t : row.file_id = fid

\* the stored bytes after a transaction took fmeta from t to t2: the bytes of
\* new rows are stored, the bytes no row points to any more wait for their
\* deferred deletion
blobsAfter(b, t, t2) ==
    LET due    == {row.file_id : row \in {x \in t \ t2 : Unreferenced(t2, x.file_id)}}
        stored == {row.file_id : row \in t2 \ t} \ DOMAIN b
    IN  [fid \in DOMAIN b \cup stored |->
            IF fid \in due THEN "trash"
            ELSE IF fid \in DOMAIN b THEN b[fid] ELSE "stored"]

Apply(r, out, size, conflict) ==
    /\ user' = out.user
    /\ fmeta' = out.fmeta
    /\ usize' = out.usize
    /\ blobs' = blobsAfter(blobs, fmeta, out.fmeta)
    /\ req' = [req EXCEPT ![r].pc = "done", ![r].status = out.status,
                          ![r].size = size, ![r].conflict = conflict]
    /\ UNCHANGED <<nsub, listVars, permVars, feVars, guiVars>>

Admitted(r, op) == req[r].pc = "admitted" /\ req[r].op = op

\* the conflict policy is consulted only when the url has a row: a create of
\* a free url is recorded in its abort form
CommitCreate ==
    \E r \in Reqs, size \in 1..MaxSize, conflict \in ConflictPolicies :
        /\ Admitted(r, "create")
        /\ NoTxnOpen
        /\ HasUrl(fmeta, req[r].url) \/ conflict = "abort"
        /\ Apply(r, CreateTxn(Db, req[r], r, size, conflict), size, conflict)

CommitDelete ==
    \E r \in Reqs :
        /\ Admitted(r, "delete")
        /\ Apply(r, DeleteTxn(Db, req[r]), 0, "")

CommitMove ==
    \E r \in Reqs :
        /\ Admitted(r, "move")
        /\ Apply(r, MoveTxn(Db, req[r]), 0, "")

CommitCopy ==
    \E r \in Reqs :
        /\ Admitted(r, "copy")
        /\ Apply(r, CopyTxn(Db, req[r]), 0, "")

CommitUserDel ==
    \E r \in Reqs :
        /\ Admitted(r, "userdel")
        /\ Apply(r, UserDelTxn(Db, req[r]), 0, "")

\* the deferred deletion of physical bytes runs for one file_id
PurgeBlob ==
    \E fid \in DOMAIN blobs :
        /\ blobs[fid] = "trash"
        /\ blobs' = [x \in DOMAIN blobs \ {fid} |-> blobs[x]]
        /\ UNCHANGED <<user, fmeta, usize, req, nsub, listVars, permVars, feVars, guiVars>>

UserRow(u) ==
    [is_admin |-> (u = Root), max_storage |-> maxStorageOf[u], permission |-> 0]

\* the database starts empty, or with a file of alice and a file that bob,
\* her write-level peer, created under her path, or with these and a file
\* that alice created under bob's path while she had write access to it
InitDb ==
    /\ user = [u \in DbUsers |-> UserRow(u)]
    /\ \/ fmeta = {} /\ usize = << >>
       \/ /\ fmeta = {FmetaRow(<<Alice, "f">>, Alice, 0, 1, 0),
                      FmetaRow(<<Alice, "g">>, Bob, -1, 1, 0)}
          /\ usize = (Alice :> 1) @@ (Bob :> 1)
       \/ /\ fmeta = {FmetaRow(<<Alice, "f">>, Alice, 0, 1, 0),
                      FmetaRow(<<Alice, "g">>, Bob, -1, 1, 0),
                      FmetaRow(<<Bob, "f">>, Alice, -2, 1, 0)}
          /\ usize = (Alice :> 2) @@ (Bob :> 1)
    /\ blobs = [fid \in {row.file_id : row \in fmeta} |-> "stored"]
    /\ req = [r \in Reqs |-> IdleReq]
    /\ nsub = 0

Next ==
    \/ SubmitCreate
    \/ SubmitDelete
    \/ SubmitMove
    \/ SubmitCopy
    \/ SubmitUserDel
    \/ CommitCreate
    \/ CommitDelete
    \/ CommitMove
    \/ CommitCopy
    \/ CommitUserDel

\* the mutation coordinator together with the deferred deletion of bytes
NextBlob ==
    \/ SubmitCreate
    \/ SubmitDelete
    \/ SubmitMove
    \/ SubmitCopy
    \/ SubmitUserDel
    \/ CommitCreate
    \/ CommitDelete
    \/ CommitMove
    \/ CommitCopy
    \/ CommitUserDel
    \/ PurgeBlob

\* the mutation coordinator with an admin that writes into the users' paths
NextOwn ==
    \/ SubmitCreate
    \/ SubmitAdminCreate
    \/ SubmitDelete
    \/ SubmitMove
    \/ SubmitCopy
    \/ SubmitUserDel
    \/ CommitCreate
    \/ CommitDelete
    \/ CommitMove
    \/ CommitCopy
    \/ CommitUserDel

\* ========================================================================
\*               forEachFile  (frontend/utils.js): runWithLimit, traverse
\* ========================================================================

MaxDropFiles == 3
MaxDropDirs == 2
MaxConcurrentArg == 2

DropFiles == 1..MaxDropFiles
DropDirs  == 1..MaxDropDirs
\* the drop event itself, the parent of the top-level entries
TopLevel == 0

\* a drop: where each file lies, the parent of each directory, maxConcurrent;
\* the files are numbered in the order of their directories, as entries
\* that differ only in their names are traversed alike
Drops ==
    [place  : {f \in [DropFiles -> {TopLevel} \cup DropDirs] :
                  \A t, u \in DropFiles : t < u => f[t] <= f[u]},
     parent : {f \in [DropDirs -> {TopLevel} \cup DropDirs] : \A d \in DropDirs : f[d] < d},
     max    : 1..MaxConcurrentArg]

FilesIn(d) == SortedAsc({t \in DropFiles : drop.place[t] = d})

\* faulty variant: a task waits only when the limit is already exceeded
atLimitExceeded(active, max) == active > max

\* runWithLimit: if (activeCount >= maxConcurrent) wait for a free slot
atLimit(active, max) == active >= max

\* the synchronous part of runWithLimit(task) for the file t: at the limit
\* the task queues its resolver and waits, else it counts itself and calls
\* the callback
submit(st, t) ==
    IF atLimit(st.activeCount, drop.max)
    THEN [st EXCEPT !.queue = Append(@, t), !.taskSt[t] = "waiting"]
    ELSE [st EXCEPT !.activeCount = @ + 1, !.taskSt[t] = "running",
                    !.fresh = @ \cup {t}]

\* traverse of the file entries of one directory, in order, in one turn
RECURSIVE submitAll(_, _)
submitAll(st, files) ==
    IF files = <<>> THEN st
    ELSE submitAll(submit(st, Head(files)), Tail(files))

Barrier == [activeCount |-> activeCount, queue |-> queue, taskSt |-> taskSt,
            fresh |-> fresh]

SetBarrier(st) ==
    /\ activeCount' = st.activeCount
    /\ queue' = st.queue
    /\ taskSt' = st.taskSt
    /\ fresh' = st.fresh

\* the directories directly inside d start reading their entries
OpenDirsOf(d) ==
    dirSt' = [x \in DropDirs |-> IF drop.parent[x] = d THEN "reading" ELSE dirSt[x]]

InitEach ==
    /\ drop \in Drops
    /\ activeCount = 0
    /\ queue = <<>>
    /\ micro = <<>>
    /\ fresh = {}
    /\ taskSt = [t \in DropFiles |-> "new"]
    /\ dirSt = [d \in DropDirs |-> "new"]

\* forEachFile(e, callback, maxConcurrent): the items of the drop are
\* traversed in one synchronous turn
Drop ==
    /\ \A t \in DropFiles : taskSt[t] = "new"
    /\ \A d \in DropDirs : dirSt[d] = "new"
    /\ micro = <<>>
    /\ SetBarrier(submitAll(Barrier, FilesIn(TopLevel)))
    /\ OpenDirsOf(TopLevel)
    /\ UNCHANGED <<drop, micro, listVars, permVars, dbVars, guiVars>>

\* readAllEntries of directory d got its last (empty) chunk: a new turn of
\* the event loop, which starts only when no reaction is pending
ReadDone ==
    \E d \in DropDirs :
        /\ micro = <<>>
        /\ dirSt[d] = "reading"
        /\ dirSt' = [dirSt EXCEPT ![d] = "read"]
        /\ micro' = <<[kind |-> "traverse", id |-> d]>>
        /\ fresh' = {}
        /\ UNCHANGED <<drop, activeCount, queue, taskSt, listVars, permVars, dbVars, guiVars>>

\* traverse continues after await readAllEntries: entries.map(traverse)
Traverse ==
    /\ micro # <<>>
    /\ Head(micro).kind = "traverse"
    /\ SetBarrier(submitAll(Barrier, FilesIn(Head(micro).id)))
    /\ OpenDirsOf(Head(micro).id)
    /\ micro' = Tail(micro)
    /\ UNCHANGED <<drop, listVars, permVars, dbVars, guiVars>>

\* the promise of a callback resolves or rejects
outcome(ok) == IF ok THEN "settled" ELSE "rejected"

\* what is left of a task once its finally block ran: try/finally passes
\* the value or the rejection on
finished(st) == IF st = "rejected" THEN "failed" ELSE "done"

\* a callback settles (resolves or rejects) on an outside event, such as the
\* end of an upload: a new turn of the event loop
SettleLater ==
    \E t \in DropFiles, ok \in BOOLEAN :
        /\ micro = <<>>
        /\ taskSt[t] = "running"
        /\ taskSt' = [taskSt EXCEPT ![t] = outcome(ok)]
        /\ micro' = <<[kind |-> "finally", id |-> t]>>
        /\ fresh' = {}
        /\ UNCHANGED <<drop, activeCount, queue, dirSt, listVars, permVars, dbVars, guiVars>>

\* a callback started in this turn settles without waiting for an outside
\* event: its reaction joins the pending ones
SettleNow ==
    \E t \in fresh, ok \in BOOLEAN :
        /\ taskSt[t] = "running"
        /\ taskSt' = [taskSt EXCEPT ![t] = outcome(ok)]
        /\ micro' = Append(micro, [kind |-> "finally", id |-> t])
        /\ fresh' = fresh \ {t}
        /\ UNCHANGED <<drop, activeCount, queue, dirSt, listVars, permVars, dbVars, guiVars>>

\* faulty variant: the slot is released after the callback's promise only
\* when it resolved, as without try/finally
FinallyOnSuccess ==
    /\ micro # <<>>
    /\ Head(micro).kind = "finally"
    /\ IF taskSt[Head(micro).id] = "rejected"
       THEN /\ activeCount' = activeCount
            /\ queue' = queue
            /\ micro' = Tail(micro)
            /\ taskSt' = [taskSt EXCEPT ![Head(micro).id] = finished(@)]
       ELSE /\ activeCount' = activeCount - 1
            /\ IF queue # <<>>
               THEN /\ queue' = Tail(queue)
                    /\ micro' = Append(Tail(micro), [kind |-> "resume", id |-> Head(queue)])
                    /\ taskSt' = [taskSt EXCEPT ![Head(micro).id] = finished(@),
                                                ![Head(queue)] = "woken"]
               ELSE /\ queue' = queue
                    /\ micro' = Tail(micro)
                    /\ taskSt' = [taskSt EXCEPT ![Head(micro).id] = finished(@)]
    /\ UNCHANGED <<drop, fresh, dirSt, listVars, permVars, dbVars, guiVars>>

\* the finally block of runWithLimit: activeCount--, and the oldest waiter's
\* resolver is called; the waiter continues in a later reaction
Finally ==
    /\ micro # <<>>
    /\ Head(micro).kind = "finally"
    /\ activeCount' = activeCount - 1
    /\ IF queue # <<>>
       THEN /\ queue' = Tail(queue)
            /\ micro' = Append(Tail(micro), [kind |-> "resume", id |-> Head(queue)])
            /\ taskSt' = [taskSt EXCEPT ![Head(micro).id] = finished(@),
                                        ![Head(queue)] = "woken"]
       ELSE /\ queue' = queue
            /\ micro' = Tail(micro)
            /\ taskSt' = [taskSt EXCEPT ![Head(micro).id] = finished(@)]
    /\ UNCHANGED <<drop, fresh, dirSt, listVars, permVars, dbVars, guiVars>>

\* a woken waiter continues after its await: activeCount++ and task()
Resume ==
    /\ micro # <<>>
    /\ Head(micro).kind = "resume"
    /\ activeCount' = activeCount + 1
    /\ taskSt' = [taskSt EXCEPT ![Head(micro).id] = "running"]
    /\ fresh' = fresh \cup {Head(micro).id}
    /\ micro' = Tail(micro)
    /\ UNCHANGED <<drop, queue, dirSt, listVars, permVars, dbVars, guiVars>>

NextEach ==
    \/ Drop
    \/ ReadDone
    \/ Traverse
    \/ SettleLater
    \/ SettleNow
    \/ Finally
    \/ Resume

\* ========================================================================
\*       the file-list page (unnamed/part_001, frontend/state.js)
\* ========================================================================

MaxTotal    == 2
MaxPagelim  == 2
MaxTyped    == 3
MaxEvents   == 2

\* the paths typed into the path input; the empty text reads back as "/"
PagePaths == {"", "/", "alice/"}

\* the text localStorage holds for the page number: <<>> is the empty text,
\* <<n>> the decimal text of n
PagenumTexts == {<<>>} \cup {<<n>> : n \in 0..MaxTyped}

\* get pagenum(): parseInt(loadPersistedState('pagenum', '1')), where an
\* empty persisted text gives the default
pagenumOf(text) == IF text = <<>> THEN 1 ELSE text[1]

\* get dirpath(): loadPersistedState('dirpath', '/')
dirpathOf(text) == IF text = "" THEN "/" ELSE text

\* the counts listPath returns: zero at the root, else dirs + files of the
\* directory, which does not change
totalOf(path) == IF path \in RootPaths THEN 0 ELSE page.total

\* faulty variant: an empty directory has no page
pageCountNoFloor(total, pagelim) == (total + pagelim - 1) \div pagelim

\* Math.max(Math.ceil(total / store.pagelim), 1)
pageCountOf(total, pagelim) == Max((total + pagelim - 1) \div pagelim, 1)

NoTable == [path |-> "", pagenum |-> 0, pagelim |-> 0]

\* the arguments refreshFileList reads from the store at the call
storeArgs(st) ==
    [path |-> dirpathOf(st.dirpath), pagenum |-> pagenumOf(st.pagenum),
     pagelim |-> st.pagelim]

\* refreshFileList(): listPath is called with the values stored now; depth
\* counts the re-listings that led to this call, and quiet says that no
\* control changed the stored values since the first call of the chain
refreshFileList(st, depth, quiet) ==
    [args |-> storeArgs(st), depth |-> depth, quiet |-> quiet]

\* a control has written the store to st and its handler calls
\* refreshFileList(): the calls in flight are no longer undisturbed when a
\* value they were made with has changed
refreshedCalls(st) ==
    {[c EXCEPT !.quiet = c.quiet /\ storeArgs(st) = storeArgs(page)] : c \in calls}
        \cup {refreshFileList(st, 0, TRUE)}

\* the page after login: store.init() and the first maybeRefreshFileList();
\* events counts the control events handled since
InitPage ==
    /\ \E dp \in PagePaths, pn \in {<<>>} \cup {<<n>> : n \in 1..MaxTyped},
          pl \in 1..MaxPagelim, tot \in {0, MaxTotal} :
          page = [dirpath |-> dp, pagenum |-> pn, pagelim |-> pl, label |-> 1,
                  table |-> NoTable, connected |-> FALSE, total |-> tot,
                  events |-> 0]
    /\ calls = {refreshFileList(page, 0, TRUE)}

\* pathInput 'input': onPathChange stores the text; maybeRefreshFileList
\* lists when the stored path is not empty and ends with '/'
PathChange ==
    /\ page.events < MaxEvents
    /\ \E text \in PagePaths :
          page' = [page EXCEPT !.dirpath = text, !.events = @ + 1]
    /\ calls' = refreshedCalls(page')
    /\ UNCHANGED <<ls, connConfig, login, listVars, permVars, dbVars, feVars>>

\* pageNumInput 'change': store.pagenum = elem.target.value
PageNumChange ==
    /\ page.events < MaxEvents
    /\ \E text \in PagenumTexts :
          page' = [page EXCEPT !.pagenum = text, !.events = @ + 1]
    /\ calls' = refreshedCalls(page')
    /\ UNCHANGED <<ls, connConfig, login, listVars, permVars, dbVars, feVars>>

\* pageLimitSelect 'change': store.pagelim = elem.target.value
PageLimChange ==
    /\ page.events < MaxEvents
    /\ \E pl \in 1..MaxPagelim :
          page' = [page EXCEPT !.pagelim = pl, !.events = @ + 1]
    /\ calls' = refreshedCalls(page')
    /\ UNCHANGED <<ls, connConfig, login, listVars, permVars, dbVars, feVars>>

\* keydown ArrowLeft: Math.max(store.pagenum - 1, 1)
ArrowLeft ==
    /\ page.events < MaxEvents
    /\ page' = [page EXCEPT !.pagenum = <<Max(pagenumOf(page.pagenum) - 1, 1)>>,
                            !.events = @ + 1]
    /\ calls' = refreshedCalls(page')
    /\ UNCHANGED <<ls, connConfig, login, listVars, permVars, dbVars, feVars>>

\* keydown ArrowRight: Math.min(Math.max(store.pagenum + 1, 1), pageCount label)
ArrowRight ==
    /\ page.events < MaxEvents
    /\ page' = [page EXCEPT
           !.pagenum = <<Min(Max(pagenumOf(page.pagenum) + 1, 1), page.label)>>,
           !.events = @ + 1]
    /\ calls' = refreshedCalls(page')
    /\ UNCHANGED <<ls, connConfig, login, listVars, permVars, dbVars, feVars>>

\* a sort control changed, or an upload or a delete completed:
\* refreshFileList() with the paging values as stored
Refresh ==
    /\ page.events < MaxEvents
    /\ page' = [page EXCEPT !.events = @ + 1]
    /\ calls' = refreshedCalls(page')
    /\ UNCHANGED <<ls, connConfig, login, listVars, permVars, dbVars, feVars>>

\* the page and the calls after the listing of call c has arrived: the
\* table is cleared and the page count is computed from the returned counts
\* and the page limit stored now; a stored page number above it is set to
\* the page count and the listing is asked again, else the rows of this
\* response are rendered
responded(c) ==
    LET pageCount == pageCountOf(totalOf(c.args.path), page.pagelim)
        seen == [page EXCEPT !.connected = TRUE, !.label = pageCount]
        st == [seen EXCEPT !.table = NoTable, !.pagenum = <<pageCount>>]
    IN  IF pagenumOf(page.pagenum) > pageCount
        THEN [page |-> st,
              calls |-> (calls \ {c}) \cup
                   {refreshFileList(st, c.depth + 1, c.quiet)}]
        ELSE [page |-> [seen EXCEPT !.table = c.args], calls |-> calls \ {c}]

\* the then-callback of refreshFileList
Respond ==
    /\ \E c \in calls :
          /\ page' = responded(c).page
          /\ calls' = responded(c).calls
    /\ UNCHANGED <<ls, connConfig, login, listVars, permVars, dbVars, feVars>>

\* the listing of a call fails: the page is marked disconnected and the
\* table is cleared
RespondError ==
    /\ \E c \in calls :
          /\ page' = [page EXCEPT !.connected = FALSE, !.table = NoTable]
          /\ calls' = calls \ {c}
    /\ UNCHANGED <<ls, connConfig, login, listVars, permVars, dbVars, feVars>>

NextPage ==
    \/ PathChange
    \/ PageNumChange
    \/ PageLimChange
    \/ ArrowLeft
    \/ ArrowRight
    \/ Refresh
    \/ Respond
    \/ RespondError

\* ========================================================================
\*        store and login panel (frontend/state.js, frontend/login.js)
\* ========================================================================

MaxClicks == 2

DefaultEndpoint == "http://localhost:8000"
Tokens    == {"", "tok"}
Endpoints == {"", DefaultEndpoint, "http://host"}

\* what whoami gives: the record of a real user, the record with id 0 of
\* the not-logged-in user, or a failure
WhoamiResults == {"user", "guest", "error"}

\* localStorage holds nothing (<<>>) or a text (<<s>>) under a key;
\* loadPersistedState: persistedValue ? persistedValue : defaultValue
loadPersistedState(held, defaultValue) ==
    IF held = <<>> \/ held[1] = "" THEN defaultValue ELSE held[1]

\* get token() and get endpoint() of the store
storeToken    == loadPersistedState(ls.token, "")
storeEndpoint == loadPersistedState(ls.endpoint, DefaultEndpoint)

\* the page is loaded: localStorage as an earlier visit left it, then
\* store.init()
InitLogin ==
    /\ ls \in [token : {<<>>} \cup {<<t>> : t \in Tokens},
               endpoint : {<<>>} \cup {<<u>> : u \in Endpoints}]
    /\ connConfig = [token |-> storeToken, endpoint |-> storeEndpoint]
    /\ login = [pc |-> "start", clicks |-> 0, result |-> "pending"]

\* maybeShowLoginPanel(store): whoami is asked first
StartCheck ==
    /\ login.pc = "start"
    /\ login' = [login EXCEPT !.pc = "whoami"]
    /\ UNCHANGED <<ls, connConfig, page, calls, listVars, permVars, dbVars, feVars>>

\* maybeShowLoginPanel(store, true): the panel is shown at once
ForceShow ==
    /\ login.pc = "start"
    /\ login' = [login EXCEPT !.pc = "panel"]
    /\ UNCHANGED <<ls, connConfig, page, calls, listVars, permVars, dbVars, feVars>>

\* the startup whoami answers: a user with id # 0 is returned, else (id 0,
\* or a failure) the panel is shown
WhoamiStartup ==
    /\ login.pc = "whoami"
    /\ \E res \in WhoamiResults :
          login' = IF res = "user"
                   THEN [login EXCEPT !.pc = "returned", !.result = res]
                   ELSE [login EXCEPT !.pc = "panel"]
    /\ UNCHANGED <<ls, connConfig, page, calls, listVars, permVars, dbVars, feVars>>

\* endpointInput 'input': store.endpoint = endpointInput.value
TypeEndpoint ==
    /\ login.pc = "panel"
    /\ \E url \in Endpoints :
          /\ ls' = [ls EXCEPT !.endpoint = <<url>>]
          /\ connConfig' = [connConfig EXCEPT !.endpoint = url]
    /\ UNCHANGED <<login, page, calls, listVars, permVars, dbVars, feVars>>

\* tokenInput 'input': store.token = tokenInput.value
TypeToken ==
    /\ login.pc = "panel"
    /\ \E t \in Tokens :
          /\ ls' = [ls EXCEPT !.token = <<t>>]
          /\ connConfig' = [connConfig EXCEPT !.token = t]
    /\ UNCHANGED <<login, page, calls, listVars, permVars, dbVars, feVars>>

\* loginBtn 'click': whoami is asked
ClickLogin ==
    /\ login.pc = "panel"
    /\ login.clicks < MaxClicks
    /\ login' = [login EXCEPT !.clicks = @ + 1]
    /\ UNCHANGED <<ls, connConfig, page, calls, listVars, permVars, dbVars, feVars>>

\* the whoami of a click answers: on a failure a popup is shown, else the
\* panel is closed and the promise is resolved with the record; resolving a
\* promise a second time changes nothing
WhoamiClick ==
    /\ login.clicks > 0
    /\ \E res \in WhoamiResults :
          login' = IF res = "error"
                   THEN [login EXCEPT !.clicks = @ - 1]
                   ELSE [login EXCEPT !.clicks = @ - 1, !.pc = "closed",
                                      !.result = IF @ = "pending" THEN res ELSE @]
    /\ UNCHANGED <<ls, connConfig, page, calls, listVars, permVars, dbVars, feVars>>

NextLogin ==
    \/ StartCheck
    \/ ForceShow
    \/ WhoamiStartup
    \/ TypeEndpoint
    \/ TypeToken
    \/ ClickLogin
    \/ WhoamiClick

\* ========================================================================
\*                     PROPERTIES: mutation coordinator
\* ========================================================================

\* C1: in every committed state each user's accounted size equals the sum
\* of the sizes of the fmeta rows whose owner_id is that user.
C1_UsizeIsSum ==
    \A u \in DbUsers : UserSize(usize, u) = SumSizes(OwnedBy(fmeta, u))


\* two of alice's rows are gone with her, and bob's file under her path too
C1_Witness ==
    /\ \E r \in Reqs : req[r].pc = "done" /\ req[r].op = "userdel"
                        /\ req[r].status = "200" /\ req[r].target = Alice
    /\ \E r \in Reqs : req[r].pc = "done" /\ req[r].op \in {"create", "move", "copy"}
                        /\ req[r].status = "200"
    /\ Alice \notin DOMAIN usize
    /\ C1_UsizeIsSum

\* C2: no committed state has a user's accounted size above max_storage:
\* the quota check of a write and the update of usize are one step, taken
\* on the total after the write, so two writers admitted on the same total
\* cannot both commit past the quota.
C2_WithinQuota ==
    \A u \in DOMAIN user : UserSize(usize, u) <= user[u].max_storage

\* two creates charged to one user were admitted on the same accounted size;
\* each fits the quota on that size, the first committed, the second was refused
C2_Witness ==
    \E r1, r2 \in Reqs :
        /\ r1 # r2
        /\ req[r1].pc = "done" /\ req[r1].op = "create" /\ req[r1].status = "200"
        /\ req[r2].pc = "done" /\ req[r2].op = "create" /\ req[r2].status = "413"
        /\ req[r1].actor = req[r2].actor
        /\ req[r1].url # req[r2].url
        /\ req[r1].seen = req[r2].seen
        /\ req[r2].seen + req[r2].size <= user[req[r2].actor].max_storage

\* request q is a finished PUT of url with conflict policy abort, admitted
\* when the url did not exist
AbortCreate(q, url) ==
    /\ q.pc = "done" /\ q.op = "create" /\ q.url = url
    /\ q.conflict = "abort" /\ ~q.sawUrl

Touches(q, url) ==
    /\ q.pc # "idle"
    /\ \/ q.url = url
       \/ q.dst = url
       \/ q.op = "userdel"

HasWrite(name, url) ==
    /\ name \in DOMAIN user
    /\ \/ user[name].is_admin
       \/ name = pathOwner(url)
       \/ HasUrl(fmeta, url) /\ RowOf(fmeta, url).owner_id = name
       \/ peerLevelOf(pathOwner(url), name) = "write"

\* request r is submitted in this step and asks for op
Submitted(r, op) == req[r].pc = "idle" /\ req'[r].pc # "idle" /\ req'[r].op = op

\* C12: a MOVE is admitted only if the actor has write permission on the
\* source path and on the destination path, each decided on its own; an actor
\* lacking either is answered 403 and no row of fmeta, user or usize changes.
C12_MoveNeedsBothWrites ==
    [][\A r \in Reqs : Submitted(r, "move") =>
          LET a == req'[r].actor
              both == HasWrite(a, req'[r].url) /\ HasWrite(a, req'[r].dst)
          IN  /\ both <=> req'[r].pc = "admitted"
              /\ ~both => /\ req'[r].pc = "done" /\ req'[r].status = "403"
                          /\ UNCHANGED <<user, fmeta, usize>>]_vars

\* alice, who owns the source /alice/f but has no write permission on /bob/,
\* was refused the move to /bob/f; the record is where and whose it was
C12_Witness ==
    \E r \in Reqs :
        /\ req[r].pc = "done" /\ req[r].op = "move" /\ req[r].status = "403"
        /\ req[r].actor = Alice
        /\ req[r].url = <<Alice, "f">> /\ req[r].dst = <<Bob, "f">>
        /\ HasWrite(Alice, <<Alice, "f">>) /\ ~HasWrite(Alice, <<Bob, "f">>)
        /\ HasUrl(fmeta, <<Alice, "f">>)
        /\ RowOf(fmeta, <<Alice, "f">>).owner_id = Alice
        /\ ~HasUrl(fmeta, <<Bob, "f">>)

\* request r commits in this step: its transaction runs and it is answered
Commits(r, op) == req[r].pc = "admitted" /\ req[r].op = op /\ req'[r].pc = "done"

\* C13: the step that answers a MOVE with success does all of this at once:
\* the record is at the destination url and nowhere else, its file-owner is
\* the destination path-owner; when that is another user than the previous
\* file-owner, the previous owner's accounted size is smaller and the
\* destination path-owner's larger by exactly the file's size; no other
\* record and no other accounted size changes. Every other answer of a MOVE
\* leaves the record and the accounted sizes as they were.
C13_MoveTransfersOwnership ==
    [][\A r \in Reqs : Commits(r, "move") =>
          IF req'[r].status = "200"
          THEN LET old  == RowOf(fmeta, req[r].url)
                   to   == pathOwner(req[r].dst)
                   from == old.owner_id
                   size == old.file_size
               IN  /\ HasUrl(fmeta, req[r].url) /\ ~HasUrl(fmeta', req[r].url)
                   /\ RowsAt(fmeta', req[r].dst)
                         = {FmetaRow(req[r].dst, to, old.file_id, size, old.permission)}
                   /\ fmeta' \ RowsAt(fmeta', req[r].dst) = fmeta \ {old}
                   /\ from # to =>
                         /\ UserSize(usize', from) = UserSize(usize, from) - size
                         /\ UserSize(usize', to) = UserSize(usize, to) + size
                   /\ \A u \in DbUsers \ {from, to} :
                         UserSize(usize', u) = UserSize(usize, u)
                   /\ from = to => UserSize(usize', to) = UserSize(usize, to)
          ELSE UNCHANGED <<fmeta, usize>>]_vars

\* bob, write-level peer of alice, moved alice's /alice/f (1 byte) to /bob/f:
\* the record is bob's, alice accounts 0 bytes and bob 2
C13_Witness ==
    \E r \in Reqs :
        /\ nsub = 1
        /\ req[r].pc = "done" /\ req[r].op = "move" /\ req[r].status = "200"
        /\ req[r].url = <<Alice, "f">> /\ req[r].dst = <<Bob, "f">>
        /\ ~HasUrl(fmeta, <<Alice, "f">>)
        /\ RowsAt(fmeta, <<Bob, "f">>) = {FmetaRow(<<Bob, "f">>, Bob, 0, 1, 0)}
        /\ UserSize(usize, Alice) = 0 /\ UserSize(usize, Bob) = 2

\* the move of request r would put the destination path-owner over quota
MoveOverQuota(r) ==
    /\ req[r].actor \in DOMAIN user
    /\ HasUrl(fmeta, req[r].url) /\ ~HasUrl(fmeta, req[r].dst)
    /\ pathOwner(req[r].dst) \in DOMAIN user
    /\ RowOf(fmeta, req[r].url).owner_id # pathOwner(req[r].dst)
    /\ UserSize(usize, pathOwner(req[r].dst)) + RowOf(fmeta, req[r].url).file_size
          > user[pathOwner(req[r].dst)].max_storage

\* C14: a MOVE that would make the destination owner exceed its quota is
\* answered 409 and changes nothing: every accounted size, the record's url
\* and its file-owner are as before, the file is still at its original path
\* and nothing is at the destination.
C14_MoveOverQuotaRollsBack ==
    [][\A r \in Reqs : (Commits(r, "move") /\ MoveOverQuota(r)) =>
          /\ req'[r].status = "409"
          /\ UNCHANGED <<user, fmeta, usize>>
          /\ HasUrl(fmeta', req[r].url) /\ ~HasUrl(fmeta', req[r].dst)]_vars

\* bob accounts 2 bytes, his whole quota; his move of alice's /alice/f to
\* /bob/f was answered 409 and the file is still alice's at /alice/f
C14_Witness ==
    \E r \in Reqs :
        /\ req[r].pc = "done" /\ req[r].op = "move" /\ req[r].status = "409"
        /\ req[r].url = <<Alice, "f">> /\ req[r].dst = <<Bob, "f">>
        /\ UserSize(usize, Bob) = user[Bob].max_storage
        /\ HasUrl(fmeta, <<Alice, "f">>) /\ ~HasUrl(fmeta, <<Bob, "f">>)
        /\ RowOf(fmeta, <<Alice, "f">>).owner_id = Alice
        /\ UserSize(usize, Alice) = RowOf(fmeta, <<Alice, "f">>).file_size

\* C15: the step that answers a COPY with success adds exactly one record,
\* at the destination, whose file-owner is the acting user and whose size is
\* the source's; the source record and every other record are untouched; the
\* acting user's accounted size grows by the copied size and no other user's
\* accounted size changes, the source's file-owner is debited nothing. Every
\* other answer of a COPY changes nothing.
C15_CopyFrame ==
    [][\A r \in Reqs : Commits(r, "copy") =>
          IF req'[r].status = "200"
          THEN LET src == RowOf(fmeta, req[r].url)
                   a   == req[r].actor
               IN  /\ HasUrl(fmeta, req[r].url) /\ src \in fmeta'
                   /\ fmeta \subseteq fmeta'
                   /\ fmeta' \ fmeta
                         = {FmetaRow(req[r].dst, a, src.file_id, src.file_size,
                                     src.permission)}
                   /\ UserSize(usize', a) = UserSize(usize, a) + src.file_size
                   /\ \A u \in DbUsers \ {a} : UserSize(usize', u) = UserSize(usize, u)
          ELSE UNCHANGED <<user, fmeta, usize>>]_vars

\* bob copied alice's /alice/f (1 byte) to /bob/f: alice's record and her
\* accounted size are as before, the copy is bob's and bob accounts 2 bytes
C15_Witness ==
    \E r \in Reqs :
        /\ nsub = 1
        /\ req[r].pc = "done" /\ req[r].op = "copy" /\ req[r].status = "200"
        /\ req[r].actor = Bob
        /\ req[r].url = <<Alice, "f">> /\ req[r].dst = <<Bob, "f">>
        /\ RowsAt(fmeta, <<Alice, "f">>) = {FmetaRow(<<Alice, "f">>, Alice, 0, 1, 0)}
        /\ RowsAt(fmeta, <<Bob, "f">>) = {FmetaRow(<<Bob, "f">>, Bob, 0, 1, 0)}
        /\ UserSize(usize, Alice) = 1 /\ UserSize(usize, Bob) = 2

\* the bytes of the row are stored and not due for deletion, in the next state
BytesKept(row) == row.file_id \in DOMAIN blobs' /\ blobs'[row.file_id] = "stored"

\* C16: the step that deletes a record keeps every other record, a copy of
\* the deleted one included, with its url, permission, file-owner and file_id,
\* and keeps its bytes stored also when it shares them with the deleted record
\* (hard link); a run of the deferred deletion of bytes changes no record and
\* removes no bytes a record points to.
C16_CopySurvivesSourceDelete ==
    [][/\ \A r \in Reqs : (Commits(r, "delete") /\ req'[r].status = "200") =>
              \A row \in fmeta :
                  row.url # req[r].url => row \in fmeta' /\ BytesKept(row)
       /\ (blobs' # blobs /\ req' = req) =>
              fmeta' = fmeta /\ \A row \in fmeta : BytesKept(row)]_vars

\* bob copied /alice/f to /bob/f and /alice/f was then deleted: the copy is
\* still bob's, with the bytes of the source, which are stored
C16_Witness ==
    \E rc, rd \in Reqs :
        /\ rc < rd
        /\ req[rc].pc = "done" /\ req[rc].op = "copy" /\ req[rc].status = "200"
        /\ req[rc].url = <<Alice, "f">> /\ req[rc].dst = <<Bob, "f">>
        /\ req[rd].pc = "done" /\ req[rd].op = "delete" /\ req[rd].status = "200"
        /\ req[rd].url = <<Alice, "f">>
        /\ ~HasUrl(fmeta, <<Alice, "f">>)
        /\ RowsAt(fmeta, <<Bob, "f">>) = {FmetaRow(<<Bob, "f">>, Bob, 0, 1, 0)}
        /\ blobs[0] = "stored"

\* the records of U under the path of another user v: they pass to v
TransferredTo(t, U, v) == {row \in OwnedBy(t, U) : pathOwner(row.url) = v /\ v # U}

\* what a successful deletion of U leaves of U and of U's records
UserGone(r) ==
    LET U == req[r].target
    IN  /\ U \notin DOMAIN user' /\ U \notin DOMAIN usize'
        /\ UnderPathOf(fmeta', U) = {}
        /\ \A v \in DbUsers \ {U} : \A row \in TransferredTo(fmeta, U, v) :
              [row EXCEPT !.owner_id = v] \in fmeta'

\* C17 as stated: after a successful deletion of U each receiving owner's
\* accounted size has grown by exactly the total size of the records
\* transferred to them.
C17_Original ==
    [][\A r \in Reqs : (Commits(r, "userdel") /\ req'[r].status = "200") =>
          /\ UserGone(r)
          /\ \A v \in DbUsers \ {req[r].target} :
                TransferredTo(fmeta, req[r].target, v) # {} =>
                    UserSize(usize', v) = UserSize(usize, v)
                        + SumSizes(TransferredTo(fmeta, req[r].target, v))]_vars

\* C17: after a successful deletion of U, U's user row and accounted-size row
\* are gone, no record under U's path remains, every record U owned under
\* another user's path exists with that path's owner as file-owner, and each
\* other user's accounted size has changed by exactly the total size of the
\* records transferred to them less the total size of their own records that
\* went with U's path.
C17_UserDeletion ==
    [][\A r \in Reqs : (Commits(r, "userdel") /\ req'[r].status = "200") =>
          /\ UserGone(r)
          /\ \A v \in DbUsers \ {req[r].target} :
                UserSize(usize', v) = UserSize(usize, v)
                    + SumSizes(TransferredTo(fmeta, req[r].target, v))
                    - SumSizes(OwnedBy(UnderPathOf(fmeta, req[r].target), v))]_vars

\* bob, who owned /alice/g and created /bob/f, was deleted: bob's rows are
\* gone, /alice/g is alice's and alice accounts for it
C17_Witness ==
    \E rc, rd \in Reqs :
        /\ rc < rd
        /\ req[rc].pc = "done" /\ req[rc].op = "create" /\ req[rc].status = "200"
        /\ req[rc].actor = Bob /\ req[rc].url = <<Bob, "f">> /\ ~req[rc].sawUrl
        /\ req[rd].pc = "done" /\ req[rd].op = "userdel" /\ req[rd].status = "200"
        /\ req[rd].target = Bob
        /\ Bob \notin DOMAIN user /\ Bob \notin DOMAIN usize
        /\ UnderPathOf(fmeta, Bob) = {}
        /\ RowsAt(fmeta, <<Alice, "g">>) = {FmetaRow(<<Alice, "g">>, Alice, -1, 1, 0)}
        /\ UserSize(usize, Alice) = 2

\* ========================================================================

\* the deletion asked by request r would leave a receiving owner over quota
ReceiverOverQuota(r) ==
    LET U == req[r].target
    IN  /\ req[r].actor \in DOMAIN user /\ U \in DOMAIN user
        /\ \E v \in DOMAIN user \ {U} :
              /\ TransferredTo(fmeta, U, v) # {}
              /\ UserSize(usize, v) + SumSizes(TransferredTo(fmeta, U, v))
                    - SumSizes(OwnedBy(UnderPathOf(fmeta, U), v))
                    > user[v].max_storage

\* C18: a deletion of U whose transfer of file-owner would push a receiving
\* owner over quota is answered 409 and the state is exactly as before: U's
\* user row, every record under U's path, every file-owner and every
\* accounted size are unchanged.
C18_UserDeletionAllOrNothing ==
    [][\A r \in Reqs : (Commits(r, "userdel") /\ ReceiverOverQuota(r)) =>
          /\ req'[r].status = "409"
          /\ UNCHANGED <<user, fmeta, usize>>
          /\ req[r].target \in DOMAIN user']_vars

\* alice accounts 2 bytes, her whole quota; the deletion of bob, whose
\* /alice/g she would have to take over, was answered 409 and bob, his file
\* and both accounted sizes are as before
C18_Witness ==
    \E r \in Reqs :
        /\ req[r].pc = "done" /\ req[r].op = "userdel" /\ req[r].status = "409"
        /\ req[r].target = Bob
        /\ Bob \in DOMAIN user
        /\ UserSize(usize, Alice) = user[Alice].max_storage
        /\ HasUrl(fmeta, <<Alice, "g">>)
        /\ RowOf(fmeta, <<Alice, "g">>).owner_id = Bob
        /\ UserSize(usize, Bob) >= RowOf(fmeta, <<Alice, "g">>).file_size

\* C21: the step that answers a create of an existing url, sent by a user
\* who still exists, leaves user, fmeta and usize as they were under policy
\* abort (answered 409) and under policy skip (answered 200); a step that
\* changes the record is one under policy overwrite, and an overwrite that
\* succeeds leaves exactly the new record at the url.
C21_ConflictPolicies ==
    [][\A r \in Reqs :
        (/\ Commits(r, "create")
         /\ HasUrl(fmeta, req[r].url)
         /\ req[r].actor \in DOMAIN user) =>
            /\ req'[r].conflict = "abort" =>
                  req'[r].status = "409" /\ UNCHANGED <<user, fmeta, usize>>
            /\ req'[r].conflict = "skip" =>
                  req'[r].status = "200" /\ UNCHANGED <<user, fmeta, usize>>
            /\ (fmeta' # fmeta \/ usize' # usize) => req'[r].conflict = "overwrite"
            /\ (req'[r].conflict = "overwrite" /\ req'[r].status = "200") =>
                  RowsAt(fmeta', req[r].url)
                     = {FmetaRow(req[r].url, req[r].actor, r, req'[r].size, 0)}]_vars

\* /alice/f existed; bob put it with abort and was answered 409, he put it
\* with skip and was answered 200, and alice's record is still the one there
C21_Witness ==
    \E r1, r2 \in Reqs :
        /\ req[r1].pc = "done" /\ req[r1].op = "create" /\ req[r1].sawUrl
        /\ req[r2].pc = "done" /\ req[r2].op = "create" /\ req[r2].sawUrl
        /\ req[r1].url = <<Alice, "f">> /\ req[r2].url = <<Alice, "f">>
        /\ req[r1].actor = Bob /\ req[r2].actor = Bob
        /\ req[r1].conflict = "abort" /\ req[r1].status = "409"
        /\ req[r2].conflict = "skip" /\ req[r2].status = "200"
        /\ RowsAt(fmeta, <<Alice, "f">>) = {FmetaRow(<<Alice, "f">>, Alice, 0, 1, 0)}
        /\ usize = (Alice :> 1) @@ (Bob :> 1)

\* C25: a COPY is admitted exactly when its sender has write permission on
\* the destination path; write permission on the source path is not asked
\* for, so a read-level peer of the source's owner copies into its own path.
C25_CopyNeedsDestinationOnly ==
    [][\A r \in Reqs :
        Submitted(r, "copy") =>
            (req'[r].status # "403" <=> HasWrite(req'[r].actor, req'[r].dst))]_vars

\* alice, a read-level peer of bob without write permission on /bob/f, has
\* copied bob's /bob/f into her own path
C25_Witness ==
    \E r \in Reqs :
        /\ req[r].pc = "done" /\ req[r].op = "copy" /\ req[r].status = "200"
        /\ req[r].actor = Alice
        /\ req[r].url = <<Bob, "f">> /\ pathOwner(req[r].dst) = Alice
        /\ peerLevelOf(Bob, Alice) = "read"
        /\ ~HasWrite(Alice, <<Bob, "f">>)
        /\ HasUrl(fmeta, <<Bob, "f">>) /\ RowOf(fmeta, <<Bob, "f">>).owner_id = Bob
        /\ HasUrl(fmeta, req[r].dst) /\ RowOf(fmeta, req[r].dst).owner_id = Alice

\* C27: in every state every record lies under the path of an existing user,
\* its path-owner, and its file-owner is an existing user: creates by an
\* admin and by a write-level peer in another user's path, moves between
\* paths, copies and user deletions leave no dangling owner.
C27_NoDanglingOwner ==
    \A row \in fmeta :
        /\ pathOwner(row.url) \in DOMAIN user
        /\ row.owner_id \in DOMAIN user

\* root has written a file under alice's path and owns it; bob, who had
\* created /alice/g there as a write-level peer, was deleted and alice owns
\* the record now
C27_Witness ==
    /\ Bob \notin DOMAIN user
    /\ \E r \in Reqs : req[r].pc = "done" /\ req[r].op = "userdel"
                        /\ req[r].target = Bob /\ req[r].status = "200"
    /\ \E row \in fmeta : row.owner_id = Root /\ pathOwner(row.url) = Alice
    /\ HasUrl(fmeta, <<Alice, "g">>)
    /\ RowOf(fmeta, <<Alice, "g">>).owner_id = Alice

\* ========================================================================
\*                        PROPERTIES: listing merger
\* ========================================================================

Returned == lp.pc = "done" /\ lp.path \notin RootPaths

AllDirs  == Ordered(dirNames, lp.orderDesc)
AllFiles == Ordered(fileNames, lp.orderDesc)

\* the entries of sequence s at the 0-based positions [from, from + count)
Positions(s, from, count) ==
    LET n == Max(Min(from + count, Len(s)) - from, 0)
    IN  [i \in 1..n |-> s[from + i]]

\* C9: on an unchanging directory a returned page holds the directories at
\* positions [offset, offset+limit) followed by the files that fill the
\* remaining slots from file position max(offset - dirCount, 0); it has
\* min(limit, max(dirCount + fileCount - offset, 0)) entries; with 3
\* directories, 10 files and limit 5 the offsets 0, 3, 12 and 13 give
\* 3+2, 0+5, 0+1 and 0+0 entries.
C9_PageContents ==
    Returned =>
        LET dc == Cardinality(dirNames)
            fc == Cardinality(fileNames)
            expDirs  == Positions(AllDirs, lp.offset, lp.limit)
            expFiles == Positions(AllFiles, Max(lp.offset - dc, 0),
                                  lp.limit - Len(expDirs))
            nd == Len(lp.dirList)
            nf == Len(lp.fileList)
        IN  /\ lp.dirList = expDirs
            /\ lp.fileList = expFiles
            /\ nd + nf = Min(lp.limit, Max(dc + fc - lp.offset, 0))
            /\ lp.retDirs = dc /\ lp.retFiles = fc
            /\ (dc = 3 /\ fc = 10 /\ lp.limit = 5) =>
                  /\ lp.offset = 0  => nd = 3 /\ nf = 2
                  /\ lp.offset = 3  => nd = 0 /\ nf = 5
                  /\ lp.offset = 12 => nd = 0 /\ nf = 1
                  /\ lp.offset = 13 => nd = 0 /\ nf = 0

\* a returned last-but-one-entry page of the 3 + 10 directory of the claim
C9_Witness ==
    /\ Returned
    /\ Cardinality(dirNames) = 3 /\ Cardinality(fileNames) = 10
    /\ lp.limit = 5 /\ lp.offset = 12
    /\ lp.dirList = <<>> /\ Len(lp.fileList) = 1

\* every subdirectory, then every file, in the order of the listing
AllEntries == Tag("d", AllDirs) \o Tag("f", AllFiles)

\* C10: paging from offset 0 in steps of limit > 0 over an unchanging
\* directory, the pages concatenated are exactly the first offset+limit
\* entries of "all directories, then all files", and all of them once the
\* last page is in: nothing repeated, nothing skipped, no file before a
\* directory.
C10_PagesPartition ==
    (Returned /\ pager.start = 0 /\ lp.limit > 0) =>
        pager.acc \o PageOf(lp)
            = SubSeq(AllEntries, 1, Min(lp.offset + lp.limit, Len(AllEntries)))

\* the last of at least three pages that between them hold dirs and files
C10_Witness ==
    /\ Returned /\ pager.start = 0 /\ lp.limit > 0
    /\ pager.pages >= 2
    /\ lp.offset + lp.limit >= Len(AllEntries)
    /\ Cardinality(dirNames) = 3 /\ Cardinality(fileNames) >= 2
    /\ pager.acc \o PageOf(lp) = AllEntries

\* what listPath(offset, limit) gives on the single directory state (D, F):
\* the page of C9 and the counts of D and F
SinglePage(D, F) ==
    LET ds == Ordered(D, lp.orderDesc)
        fs == Ordered(F, lp.orderDesc)
        expDirs == Positions(ds, lp.offset, lp.limit)
    IN  [dirList  |-> expDirs,
         fileList |-> Positions(fs, Max(lp.offset - Cardinality(D), 0),
                                lp.limit - Len(expDirs)),
         dirs |-> Cardinality(D), files |-> Cardinality(F)]

\* the states the directory has been in during the call, the current one last
DirStates ==
    {[dirs |-> dirHist[i].dirs, files |-> dirHist[i].files] : i \in 1..Len(dirHist)}
        \cup {[dirs |-> dirNames, files |-> fileNames]}

ReturnedPage ==
    [dirList |-> lp.dirList, fileList |-> lp.fileList,
     dirs |-> lp.retDirs, files |-> lp.retFiles]

\* C11: when a subdirectory or a file is created or deleted between the
\* count round and the fetch round of listPath, the returned page with the
\* returned counts is what the same offset and limit give on one single
\* state of the directory, the one before or the one after the change.
C11_StableUnderMutation ==
    (/\ Returned
     /\ dirHist # <<>>
     /\ \A i \in 1..Len(dirHist) : dirHist[i].between) =>
        \E st \in DirStates : ReturnedPage = SinglePage(st.dirs, st.files)

\* C29: listPath sends a list-files request only when page slots are left
\* after the directories (limit minus directories on this page is above 0)
\* and fileCount is above the file offset; when the directories fill the
\* page no list-files request is sent and files is the empty list.
C29_FilesOnlyWhenSlotsLeft ==
    /\ \A i \in 1..Len(lpReqs) :
          lpReqs[i].kind = "list-files" =>
              lpReqs[i].limit > 0 /\ lp.fileCount > lpReqs[i].offset
    /\ (Returned /\ fileLimit(lp.limit, Len(lp.dirList)) = 0) => lp.fileList = <<>>

\* C32: listPath never returns more than limit entries in total, dirs plus
\* files, whatever the directory holds when the counts are answered and
\* when the lists are answered (each list answer has at most the entries
\* its own limit asks for).
C32_AtMostLimit ==
    Returned => Len(lp.dirList) + Len(lp.fileList) <= lp.limit

\* a subdirectory was created between the counts and the lists; the page
\* returned is full and holds directories and files
C32_Witness ==
    /\ Returned
    /\ dirHist # <<>>
    /\ \A i \in 1..Len(dirHist) : dirHist[i].between
    /\ Cardinality(dirNames) > lp.dirCount
    /\ lp.dirList # <<>> /\ lp.fileList # <<>>
    /\ Len(lp.dirList) + Len(lp.fileList) = lp.limit

\* the requests of a kind that the running listPath call has sent
SentOf(kind) == {i \in 1..Len(lpReqs) : lpReqs[i].kind = kind}

\* C38: for orderBy = 'url' listPath asks the directories ordered by dirname
\* and the files ordered by url, both with the caller's orderDesc; for
\* every other orderBy the file request carries that key and the directory
\* request the empty key; the stored value 'none' goes out as the empty
\* key in both.
C38_OrderKeys ==
    LET arg == lp.orderByArg
    IN  /\ \A i \in SentOf("list-dirs") :
              /\ lpReqs[i].order_by = (IF arg = "url" THEN "dirname" ELSE "")
              /\ lpReqs[i].order_desc = lp.orderDesc
        /\ \A i \in SentOf("list-files") :
              /\ lpReqs[i].order_by = (IF arg = "none" THEN "" ELSE arg)
              /\ lpReqs[i].order_desc = lp.orderDesc

\* a call with orderBy = 'url', descending, has sent both list requests
C38_Witness ==
    /\ Returned
    /\ lp.orderByArg = "url" /\ lp.orderDesc
    /\ \E i \in SentOf("list-dirs") : lpReqs[i].order_by = "dirname"
    /\ \E i \in SentOf("list-files") : lpReqs[i].order_by = "url"
    /\ lp.dirList # <<>> /\ lp.fileList # <<>>

\* C39: for the path '/' or '' listPath makes one root listing request and
\* no count, list-dirs or list-files request, and returns the counts
\* dirs = 0 and files = 0 whatever offset and limit are.
C39_RootCase ==
    lp.path \in {"/", ""} =>
        /\ \A i \in 1..Len(lpReqs) : lpReqs[i].kind = "list-path"
        /\ Len(lpReqs) <= 1
        /\ lp.pc # "call" =>
              /\ lp.pc = "done"
              /\ Len(lpReqs) = 1
              /\ lp.retDirs = 0 /\ lp.retFiles = 0

\* the call for the empty path with an offset and a limit has returned
C39_Witness ==
    /\ lp.pc = "done"
    /\ lp.path = ""
    /\ lp.offset > 0 /\ lp.limit > 0
    /\ lpReqs = <<[kind |-> "list-path", path |-> ""]>>
    /\ lp.retDirs = 0 /\ lp.retFiles = 0
    /\ dirNames # {} /\ fileNames # {}

\* ========================================================================
\*                     PROPERTIES: permission evaluator
\* ========================================================================

Decided == decision # Undecided

\* the actor resolves to the path-owner or to the file-owner of the resource
NamedOwner(q) ==
    Live(q.actor) /\ q.actor.name \in {pathOwner(q.path), q.fileOwner}

\* the actor holds a PeerRelation to the path-owner
IsPeer(q) == Live(q.actor) /\ q.peerRel \in PeerLevels

\* the config of the resource's directory has an entry with the actor's name
NamedInConfig(q) ==
    q.actor.name \in DOMAIN configFor(q.dirconf, parentDir(q.path))

\* the tier of C4 and C6: not admin, not owner of either kind, not a peer
Outsider(q) == q.actor.kind # "admin" /\ ~NamedOwner(q) /\ ~IsPeer(q)

\* GET as the permission fields say: codes 1 = public, 2 = protected
GetByPermission(q) ==
    LET eff == IF q.filePerm # 0 THEN q.filePerm
               ELSE IF q.ownerPerm # 0 THEN q.ownerPerm ELSE 1
    IN  eff = 1 \/ (eff = 2 /\ q.actor.kind = "user")

\* C4 as stated: for every outsider, GET of a file is allowed iff the
\* effective permission is public, or protected with a logged-in actor.
C4_Original ==
    (Decided /\ Outsider(pq) /\ pq.op = "GET") =>
        (decision = Allow <=> GetByPermission(pq))

\* C4: for an outsider (not admin, not path-owner, not file-owner, not a
\* peer; anonymous included) that no entry of the file's directory config
\* names, GET of a file is allowed iff the effective permission (the file's
\* if not unset, else the path-owner's if not unset, else public) is public,
\* or is protected and the actor is an authenticated non-expired user.
C4_GetByPermission ==
    (Decided /\ Outsider(pq) /\ ~NamedInConfig(pq) /\ pq.op = "GET") =>
        (decision = Allow <=> GetByPermission(pq))

\* a logged-in outsider was allowed a file that inherits protected
C4_Witness ==
    /\ Decided /\ Outsider(pq) /\ ~NamedInConfig(pq) /\ pq.op = "GET"
    /\ pq.actor.kind = "user" /\ pq.filePerm = 0 /\ pq.ownerPerm = 2
    /\ decision = Allow

\* C5: a non-admin, non-owner peer that no directory-config entry names is
\* allowed exactly GET and LIST at read level, and GET, PUT, POST,
\* DELETE-file, DELETE-dir, MOVE, COPY and LIST at write level; whatever read
\* level allows, write level allows.
C5_PeerLevels ==
    (Decided /\ pq.actor.kind = "user" /\ ~NamedOwner(pq) /\ IsPeer(pq)
        /\ ~NamedInConfig(pq) /\ pq.op \in Operations) =>
        /\ pq.peerRel = "read" =>
              (decision = Allow <=> pq.op \in {"GET", "LIST"})
        /\ pq.peerRel = "write" => decision = Allow
        /\ decide([pq EXCEPT !.peerRel = "read"]) = Allow
              => decide([pq EXCEPT !.peerRel = "write"]) = Allow

\* a read-level peer was refused a PUT
C5_Witness ==
    /\ Decided /\ pq.actor.kind = "user" /\ ~NamedOwner(pq) /\ ~NamedInConfig(pq)
    /\ pq.peerRel = "read" /\ pq.op = "PUT" /\ decision = Deny

NonGet == Operations \ {"GET"}

\* C6 as stated: an outsider is never allowed PUT, POST, DELETE, MOVE, COPY
\* or LIST on another user's path.
C6_Original ==
    (Decided /\ Outsider(pq) /\ pq.op \in NonGet) => decision = Deny

\* C6: an outsider that no entry of the resource's directory config names is
\* never allowed PUT, POST, DELETE, MOVE, COPY or LIST on another user's
\* path, whatever the permission of the file and of the path-owner.
C6_OutsiderNoWrite ==
    (Decided /\ Outsider(pq) /\ ~NamedInConfig(pq) /\ pq.op \in NonGet)
        => decision = Deny

\* a logged-in outsider was refused a PUT on a public file
C6_Witness ==
    /\ Decided /\ Outsider(pq) /\ ~NamedInConfig(pq)
    /\ pq.actor.kind = "user" /\ pq.op = "PUT" /\ pq.filePerm = 1
    /\ decision = Deny

\* C7: the path-owner is allowed every operation on every resource under
\* its own path, whoever the file-owner is and whatever a directory config
\* holds.
C7_PathOwnerAlways ==
    (Decided /\ Live(pq.actor) /\ pq.actor.name = pathOwner(pq.path))
        => decision = Allow

\* the query about a file of a subdirectory, with the config of DirD removed
WithoutConfigOf(q, dir) ==
    [q EXCEPT !.dirconf = [d \in DOMAIN q.dirconf \ {dir} |-> q.dirconf[d]]]

ListedNone(q, dir) ==
    /\ Live(q.actor)
    /\ q.actor.name \in DOMAIN configFor(q.dirconf, dir)
    /\ configFor(q.dirconf, dir)[q.actor.name] = "none"

C19_ExpiredIsAuthFailure ==
    (Decided /\ pq.actor.kind = "expired")
        => response(pq, decision) = "AuthenticationFailure"

\* the same query asked by a guest without credential
AsGuest(q) ==
    [q EXCEPT !.actor = [kind |-> "anon", name |-> ""], !.peerRel = Absent,
              !.dirconf = << >>]

\* C20: whatever is denied to an anonymous guest is denied to an expired
\* virtual user, whatever peer relation or directory-config entry names it,
\* including GET of a private file under a path where it was a peer.
C20_ExpiredGetsNothing ==
    (Decided /\ pq.actor.kind = "expired" /\ decide(AsGuest(pq)) = Deny)
        => decision = Deny

\* a write-level peer was allowed GET of a private file; after its expiry
\* the same GET is denied
C20_Witness ==
    /\ Decided /\ pq.actor.kind = "expired" /\ prior = Allow
    /\ pq.peerRel = "write" /\ pq.op = "GET" /\ pq.filePerm = 3
    /\ decide(AsGuest(pq)) = Deny
    /\ decision = Deny

\* the config of directory dir has an entry that gives the actor this level
ListedAs(q, dir, level) ==
    /\ q.actor.name \in DOMAIN configFor(q.dirconf, dir)
    /\ configFor(q.dirconf, dir)[q.actor.name] = level

WriteOps == {"PUT", "POST", "DELETE-file"}

\* C22: a logged-in actor that the config of D lists with level write, and
\* whose PeerRelation to the path-owner is read or absent, is allowed PUT,
\* POST and DELETE-file on a file directly inside D: the entry replaces the
\* peer-derived level also when it gives more.
C22_ConfigGrantsWrite ==
    (Decided /\ pq.actor.kind = "user" /\ ListedAs(pq, DirD, "write")
        /\ pq.peerRel \in {"read", Absent}
        /\ pq.path = FileInD /\ pq.op \in WriteOps) => decision = Allow

\* bob, a read-level peer of alice that neither owns the file nor the path,
\* is listed write in D and was allowed to PUT /alice/D/f
C22_Witness ==
    /\ Decided /\ pq.actor = [kind |-> "user", name |-> Bob]
    /\ ~NamedOwner(pq)
    /\ ListedAs(pq, DirD, "write") /\ pq.peerRel = "read"
    /\ pq.path = FileInD /\ pq.op = "PUT"
    /\ decision = Allow

\* the actor has write level in D: by an entry of D's config, or as a
\* write-level peer that no entry of D's config names
WriteLevelInD(q) ==
    \/ ListedAs(q, DirD, "write")
    \/ q.peerRel = "write" /\ ~NamedInConfig(q)

\* C23: reading or writing the config document of D is allowed exactly to an
\* admin and to the owner; a logged-in actor that has write level in D, by
\* peer relation or by a write entry of that same config, and is not the
\* owner is denied both, while it is allowed PUT, POST and DELETE-file on
\* the other files directly in D.
C23_ConfigDocument ==
    (Decided /\ pq.op \in ConfigOps) =>
        /\ decision = Allow <=> (pq.actor.kind = "admin" \/ NamedOwner(pq))
        /\ (pq.actor.kind = "user" /\ ~NamedOwner(pq) /\ WriteLevelInD(pq)) =>
              /\ decision = Deny
              /\ \A op \in WriteOps :
                    decide([pq EXCEPT !.op = op, !.path = FileInD]) = Allow

\* bob, listed write in the config of D, was refused writing that config
C23_Witness ==
    /\ Decided /\ pq.actor = [kind |-> "user", name |-> Bob]
    /\ ~NamedOwner(pq) /\ ListedAs(pq, DirD, "write")
    /\ pq.path = ConfInD /\ pq.op = "CONFIG-write"
    /\ decision = Deny
    /\ decide([pq EXCEPT !.op = "PUT", !.path = FileInD]) = Allow

\* C24: GET of a file whose effective permission is public, or protected
\* with a logged-in actor, is allowed whatever the config of the file's
\* directory holds, also for an actor whose entry in that config is none.
C24_DirectUrlAccess ==
    (Decided /\ pq.op = "GET" /\ pq.fileOwner # NoRow /\ GetByPermission(pq))
        => decision = Allow

\* the same query in the state that differs only in that the file has no record
WithoutFile(q) == [q EXCEPT !.fileOwner = NoRow, !.filePerm = 0]

PrivateFile(q) ==
    /\ q.fileOwner # NoRow
    /\ effectivePermission(q.filePerm, q.ownerPerm) = "private"

\* C26 as stated: every actor, logged in or anonymous, that is not admin,
\* owner or peer gets for GET of an existing private file the NotFound it
\* gets when the file is absent.
C26_Original ==
    (Decided /\ Outsider(pq) /\ pq.actor.kind # "expired"
        /\ pq.op = "GET" /\ PrivateFile(pq)) =>
        /\ response(pq, decision) = "NotFound"
        /\ response(WithoutFile(pq), decide(WithoutFile(pq))) = "NotFound"

\* C26: an actor, logged in or anonymous, that is not admin, owner or peer
\* and that no entry of the file's directory config names gets, for GET
\* of an existing private file, the NotFound error it gets for GET of the same
\* url in the state without that file.
C26_NotFoundIndistinguishable ==
    (Decided /\ Outsider(pq) /\ ~NamedInConfig(pq) /\ pq.actor.kind # "expired"
        /\ pq.op = "GET" /\ PrivateFile(pq)) =>
        /\ response(pq, decision) = "NotFound"
        /\ response(WithoutFile(pq), decide(WithoutFile(pq))) = "NotFound"

\* a logged-in outsider asked for a private file of alice and was answered
\* NotFound
C26_Witness ==
    /\ Decided /\ Outsider(pq) /\ ~NamedInConfig(pq)
    /\ pq.actor.kind = "user" /\ pq.op = "GET"
    /\ pq.fileOwner = Alice /\ pq.filePerm = 3
    /\ decision = Deny
    /\ response(pq, decision) = "NotFound"
    /\ response(WithoutFile(pq), decide(WithoutFile(pq))) = "NotFound"

\* C28: every access, by any actor, to a path under the name of a virtual
\* user is denied.
C28_VirtualPathDenied ==
    (Decided /\ isVirtual(pathOwner(pq.path))) => decision = Deny

\* ========================================================================
\*                          PROPERTIES: forEachFile
\* ========================================================================

\* the callbacks that have been called and have not settled yet
InProgress == {t \in DropFiles : taskSt[t] = "running"}

\* C30: in every interleaving of traversal turns, wake-ups and callback
\* completions the number of callbacks in progress, and activeCount with it,
\* never exceeds maxConcurrent, also while a woken waiter has not yet
\* continued and files are still to be submitted.
C30_ConcurrencyBound ==
    /\ Cardinality(InProgress) <= drop.max
    /\ activeCount <= drop.max

\* a finished task has called the resolver of the oldest waiter, which has
\* not continued yet, so a slot is counted free; a directory whose file is
\* still to be submitted is being read, and another task waits
C30_Witness ==
    /\ \E w \in DropFiles : taskSt[w] = "woken"
    /\ activeCount < drop.max
    /\ \E d \in DropDirs : dirSt[d] = "reading" /\ FilesIn(d) # <<>>
    /\ \E t \in DropFiles : taskSt[t] = "done"

\* the callback of the file has been called
Started(t) == taskSt[t] \in {"running", "settled", "rejected", "done", "failed"}

\* the finally block of a task whose callback rejected has run
RejectedFinishes(t) == taskSt[t] = "rejected" /\ taskSt'[t] = "failed"

\* C31: when every callback eventually settles, every file the traversal
\* reaches eventually has its callback started and no waiter stays queued
\* forever; the finally block of a callback that rejected still gives its
\* slot back and wakes the oldest queued waiter.
C31_EveryFileStarts ==
    /\ <>[]((\A t \in DropFiles : Started(t)) /\ queue = <<>>)
    /\ [][\A t \in DropFiles : RejectedFinishes(t) =>
              /\ activeCount' = activeCount - 1
              /\ queue # <<>> => /\ queue' = Tail(queue)
                                 /\ taskSt'[Head(queue)] = "woken"]_vars

\* the only callback that has finished rejected, and its finally block woke
\* the oldest waiter while another one is still queued
C31_Witness ==
    /\ \E t \in DropFiles :
           /\ taskSt[t] = "failed"
           /\ \A u \in DropFiles \ {t} : taskSt[u] \notin {"done", "failed"}
    /\ \E w \in DropFiles : taskSt[w] = "woken"
    /\ queue # <<>>

\* ========================================================================
\*                       PROPERTIES: file-list page
\* ========================================================================

\* C33: after any sequence of page-number inputs, ArrowLeft and ArrowRight
\* presses, page-limit changes and refreshes the stored page number is at
\* least 1, so the offset (pagenum - 1) * pagelim of every listPath call of
\* refreshFileList is not negative.
C33_OffsetNotNegative ==
    /\ pagenumOf(page.pagenum) >= 1
    /\ \A c \in calls : (c.args.pagenum - 1) * c.args.pagelim >= 0

\* the page count the response of call c gives with the page limit stored
\* now: max(ceil((dirs + files) / pagelim), 1)
PagesAt(c) ==
    LET n == (totalOf(c.args.path) + page.pagelim - 1) \div page.pagelim
    IN  IF n < 1 THEN 1 ELSE n

\* the step is the then-callback of refreshFileList for the call c
RespondsTo(c) ==
    /\ c \in calls
    /\ page' = responded(c).page
    /\ calls' = responded(c).calls
    /\ page'.connected

\* on an unchanging directory a listing is asked again at most once, also
\* when the user changes the page controls while listings are in flight
C34_Original ==
    \A c \in calls : c.depth <= 1

\* C34: a response that finds the stored page number above the page count
\* renders nothing, stores the page count as page number and lists again;
\* on an unchanging directory, while no control changes the stored
\* dirpath, page number or page limit, the listing is asked again at most
\* once, and the response that is rendered finds the stored page number
\* at or below the page count (1 at the root).
C34_RelistAtMostOnce ==
    /\ [](\A c \in calls : c.quiet => c.depth <= 1)
    /\ [][\A c \in calls : RespondsTo(c) =>
              IF pagenumOf(page.pagenum) > PagesAt(c)
              THEN /\ page'.table = NoTable
                   /\ pagenumOf(page'.pagenum) = PagesAt(c)
                   /\ \E n \in calls' : /\ n.args = storeArgs(page')
                                         /\ n.depth >= 1
              ELSE /\ page'.table = c.args
                   /\ calls' = calls \ {c}
                   /\ pagenumOf(page'.pagenum) <= PagesAt(c)]_vars

\* the directory has two pages, the table was cleared, the page number was
\* set to the page count and the listing asked again is in flight
C34_Witness ==
    /\ page.table = NoTable
    /\ page.connected
    /\ page.label > 1
    /\ pagenumOf(page.pagenum) = page.label
    /\ \E c \in calls : c.depth = 1 /\ c.quiet /\ c.args = storeArgs(page)

\* C35: once every refreshFileList call in flight has settled, whatever the
\* order of the responses, the table shows the listing for the dirpath,
\* page number and page limit stored last, not that of an earlier request.
C35_TableShowsLatest ==
    (calls = {} /\ page.connected) => page.table = storeArgs(page)

\* ========================================================================
\*                     PROPERTIES: store and login panel
\* ========================================================================

\* C36: after store.init(), following any sequence of assignments to
\* store.token and store.endpoint (the empty string included),
\* conn.config.token equals the value read back from store.token and
\* conn.config.endpoint the value read back from store.endpoint.
C36_ConfigFollowsStore ==
    /\ connConfig.token = storeToken
    /\ connConfig.endpoint = storeEndpoint

\* C37: maybeShowLoginPanel never resolves with the record of the
\* not-logged-in user (id 0): after a whoami with id 0 or a failed whoami
\* the panel stays open and the promise pending, and the promise resolves
\* only with the record of a real user, with the panel closed.
C37_NeverResolvesGuest ==
    /\ login.result # "guest"
    /\ login.result = "user" => login.pc \in {"returned", "closed"}

\* ---- the idle values of the components a specification does not use
IdleList ==
    /\ dirNames = {} /\ fileNames = {}
    /\ lp = NewCall("", 0, 0, "", FALSE)
    /\ lpReqs = <<>>
    /\ pager = [start |-> 0, acc |-> <<>>, pages |-> 0]
    /\ dirHist = <<>>

IdlePerm ==
    /\ pq = [op |-> "none"]
    /\ decision = Undecided
    /\ prior = NoPrior

IdleDb ==
    /\ user = << >> /\ fmeta = {} /\ usize = << >>
    /\ req = << >> /\ nsub = 0
    /\ blobs = << >>

IdleEach ==
    /\ drop = << >>
    /\ activeCount = 0
    /\ queue = <<>> /\ micro = <<>>
    /\ fresh = {}
    /\ taskSt = << >> /\ dirSt = << >>

IdlePage ==
    /\ page = << >>
    /\ calls = {}

IdleLogin ==
    /\ ls = << >>
    /\ connConfig = << >>
    /\ login = << >>

IdleGui == IdlePage /\ IdleLogin

Init == InitDb /\ IdleList /\ IdlePerm /\ IdleEach /\ IdleGui
Spec == Init /\ [][Next]_vars

\* the deferred deletion of bytes, on the database that starts with the two
\* files under alice's path
InitBlobSpec == InitDb /\ Cardinality(fmeta) = 2 /\ IdleList /\ IdlePerm /\ IdleEach /\ IdleGui
SpecBlob == InitBlobSpec /\ [][NextBlob]_vars

\* ownership under admin writes, on the database that starts with the two
\* files under alice's path
InitOwnSpec == InitDb /\ Cardinality(fmeta) = 2 /\ IdleList /\ IdlePerm /\ IdleEach /\ IdleGui
SpecOwn == InitOwnSpec /\ [][NextOwn]_vars

InitListSpec == InitList /\ IdlePerm /\ IdleDb /\ IdleEach /\ IdleGui
SpecList == InitListSpec /\ [][NextList]_vars

InitListMutSpec == InitListMut /\ IdlePerm /\ IdleDb /\ IdleEach /\ IdleGui
SpecListMut == InitListMutSpec /\ [][NextListMut]_vars

InitPermSpec == InitPerm /\ IdleList /\ IdleDb /\ IdleEach /\ IdleGui
SpecPerm == InitPermSpec /\ [][NextPerm]_vars

InitEachSpec == InitEach /\ IdleList /\ IdlePerm /\ IdleDb /\ IdleGui
SpecEach == InitEachSpec /\ [][NextEach]_vars

\* the event loop runs every pending reaction and delivers every event: the
\* drop handler is called, directory reads complete, and every callback
\* that was called settles
SpecEachFair ==
    /\ SpecEach
    /\ WF_vars(Drop)
    /\ WF_vars(ReadDone)
    /\ WF_vars(Traverse \/ Finally \/ Resume)
    /\ WF_vars(SettleLater \/ SettleNow)

InitPageSpec == InitPage /\ IdleList /\ IdlePerm /\ IdleDb /\ IdleEach /\ IdleLogin
SpecPage == InitPageSpec /\ [][NextPage]_vars

InitLoginSpec == InitLogin /\ IdleList /\ IdlePerm /\ IdleDb /\ IdleEach /\ IdlePage
SpecLogin == InitLoginSpec /\ [][NextLogin]_vars

InitListKeysSpec == InitListKeys /\ IdlePerm /\ IdleDb /\ IdleEach /\ IdleGui
SpecListKeys == InitListKeysSpec /\ [][NextList]_vars

====
